---------------------------- MODULE Spec2Model ----------------------------
(***************************************************************************)
(* FantasyHub: league-data synchronization, mass-offer entitlement gate    *)
(* and per-host concurrent fetch, modelled from the Python sources.        *)
(*                                                                         *)
(* The module holds several state machines over disjoint groups of         *)
(* variables; each specification runs one of them and parks the others.    *)
(*   SpecSync      services/mfl_sync.py   sync_league_assets               *)
(*   SpecGate      services/guards.py     consume_mass_offer, one request  *)
(*                                        thread at a time                 *)
(*   SpecGateConc  the same handler, several request threads interleaved   *)
(*   SpecFetch     mfl/routes.py          mfl_config_submit fetch phase    *)
(*                                                                         *)
(* Python strings that the code takes apart (franchise ids, pick tokens,   *)
(* plan names) are sequences of one-character strings.  None is the        *)
(* one-element sequence <<"None">>.                                        *)
(***************************************************************************)
EXTENDS Integers, Sequences, FiniteSets, TLC

VARIABLES
    \* ---- relational store (committed state) ----
    teams,          \* set of Team rows [id, league, mfl_id, name]
    rosters,        \* bag of Roster rows [team_id, player_id, is_starter]
    draft_picks,    \* bag of DraftPick rows [team_id, season, round, pick_number, original_team]
    players,        \* set of Player ids in the catalog
    \* ---- one sync_league_assets call ----
    syncPc,         \* "idle" | "clear" | "rebuild" | "done" | "failed"
    syncLeague,     \* league.id of the call
    franchises,     \* the payload of the call
    syncIdx,        \* position of the for-loop in the payload (1-based)
    syncCalls,      \* calls started so far
    syncBefore,     \* the store as it was when the call started
    syncRepeat,     \* the call repeats the previous, completed call
    \* ---- mass-offer gate: usage store and request threads ----
    user,           \* current_user: [plan, unlimited, founder_expires_at]
    today,          \* date.today(), a day number
    dayCount,       \* mass_offer_daily_counters: day -> count
    weeklyUsed,     \* weekly_free_mass_offers: the week keys with used = 1
    bonus,          \* users.bonus_mass_offers
    pc,             \* per request thread: position in perform_offers
    req,            \* per request thread: the locals of perform_offers
    gateCalls,      \* perform_offers calls started so far
    gateLog,        \* what the gate returned, call after call
    logOn,          \* whether gateLog is kept (single-thread runs only)
    dailyGrants,    \* day -> sends allowed against the daily counter
    freeGrants,     \* week key -> sends allowed as the weekly free send
    bonusGrants,    \* sends allowed by spending bonus
    bonusHeld,      \* bonus units the user held at the start
    \* ---- mfl_config_submit: the fetch phase ----
    fetch_specs,    \* one fetch spec per target league
    worker,         \* per host key: the position and locals of its _worker
    fetched,        \* lid -> result bundle, as collected from the futures
    \* ---- live/routes.py: _refresh_all_live ----
    league_infos,   \* one info per league: [host, my_fid]
    host_locks,     \* the defaultdict: host -> semaphore
    liveW,          \* per worker: [pc, lock]
    semHeld,        \* semaphores with no permit left
    semMade,        \* semaphores created so far
    \* ---- the three concurrent fetches and the database ----
    hKind,          \* the handler that runs
    hPhase,         \* "pre" | "pool" | "done"
    hJobs,          \* per job of the pool: "queued" | "running" | "ok" | "failed"
    dbLog,          \* the database statements executed: [by, op, stmt, when]
    \* ---- offers/routes_confirm.py: perform_offers after the gate ----
    items,          \* the parsed pending_json
    sendIdx,        \* position of the for loop
    offers_log,     \* the result log
    sent,           \* per item: trade-proposal requests made for it
    sendPc,         \* "loop" | "rendered" | "raised"
    lastResp,       \* the response to the latest request, and its item
    \* ---- pending trades: the payload and what a parser made of it ----
    trades_xml,     \* [error, nodes]: the elements of the export, in order
    trades_by,      \* "none" | "mfl_parsers" | "mfl_trades_parsers"
    trades_out,     \* the parsed rows
    \* ---- one export call: mfl_client._export / trades_service._export ----
    exClient,       \* "mfl_client" | "trades_service"
    exHistory,      \* the status codes received so far, one per attempt
    exSlept,        \* the waits so far, in hundredths of a second
    exOutcome,      \* [kind, cls, msg, code, text]
    \* ---- services/mfl_client.py: the process-wide RateLimiter _rl ----
    rlCalls,        \* _rl._calls: the times of the calls let through
    rlClock,        \* time.time()
    rlThread,       \* per thread: [pc, now, kept, wake, left]
    rlPassed,       \* the times at which a call passed the limiter
    \* ---- mfl/routes.py: mfl_login ----
    acct,           \* current_user: [mfl_user, session_key, mfl_cookie_api, hosts]
    acctBefore,     \* current_user as it was when the form was posted
    loginPc,        \* "api" | "discover" | "hosts" | "done" | "failed"
    hostnames,      \* the league hosts found in myleagues
    hostIdx,        \* position of the loop over the sorted hosts
    host_cookie_map,\* host -> cookie, as pairs [host, cookie]
    hostOk,         \* the hosts whose login returned a cookie
    \* franchise ids: the raw id the league form posts and the raw id the
    \* league payload carries, what each component stores, and the lookup
    fidRaw, league_franchise_id, team_mfl_id, my_team,
    \* pick tokens: a draft-pick row of the database, the token built from it
    \* or received from MFL, and what each parser made of the token
    pickRow, pickToken, pickParsed, 
    \* league metadata: the franchise meta map of the bundle and the outcome
    \* of sync_league_info
    franchise_meta, infoPc, 
    \* open trades page: the cached trades, the user's franchise per league,
    \* the position of the split loop and the two groups
    trades_flat, my_fid_by_league, splitIdx, to_you, from_you, splitPc, 
    \* offer builder: the request and the league it looks at, the rows listed
    build, rows, buildPc, 
    \* league selection: the user's league rows, the posted selection, the
    \* leagues to delete and the position of the deletion loop
    leagues, selected_ids, to_delete, delIdx, delPc, 
    \* per-process caches: the live-scoring store (user ids in insertion
    \* order), the injury store (key -> time stored) and the clock
    _LIVE_CACHE_STORE, _SERVER_CACHE, cacheNow, 
    \* trade normaliser: the parsed pending trades, the viewing franchise as
    \* passed in, and the rows handed to the template (once returned)
    pending, viewer, template_rows, 
    \* mfl_config_submit, the sync phase: the position of the loop over the
    \* targets (0 while the fetch runs), the leagues whose synced_at was
    \* set, the counter of the banner and the leagues flashed as failed
    submitIdx, synced_at, leagues_synced, sync_failed, 
    \* offer preview: the posted builder form and the pending offers that
    \* preview_offers hands to the confirm page
    form, pending_json, 
    \* lineups: the League rows that exist, the lineup requests sent to the
    \* remote host, the session of the rapid flow (queue, position, events
    \* as a set of [league_id, status]) and the rapid flows started and
    \* submissions refused by the host so far
    lineup_leagues, lineup_sent, rapid_queue, rapid_idx, rapid_events, rapidCalls, 
    \* Stripe webhook: the User row it writes (plan, caps, founder window,
    \* price id; a nullable column is None or Col(value)) and the day
    billing_user, billing_today

syncVars == <<teams, rosters, draft_picks, players, syncPc, syncLeague,
              franchises, syncIdx, syncCalls, syncBefore, syncRepeat>>

gateVars == <<user, today, dayCount, weeklyUsed, bonus, pc, req, gateCalls,
              gateLog, logOn, dailyGrants, freeGrants, bonusGrants, bonusHeld>>

fetchVars == <<fetch_specs, worker, fetched>>

liveVars == <<league_infos, host_locks, liveW, semHeld, semMade>>

handlerVars == <<hKind, hPhase, hJobs, dbLog>>

sendVars == <<items, sendIdx, offers_log, sent, sendPc, lastResp>>

tradesVars == <<trades_xml, trades_by, trades_out>>

exportVars == <<exClient, exHistory, exSlept, exOutcome>>

limiterVars == <<rlCalls, rlClock, rlThread, rlPassed>>

loginVars == <<acct, acctBefore, loginPc, hostnames, hostIdx, host_cookie_map, hostOk>>

fidVars == <<fidRaw, league_franchise_id, team_mfl_id, my_team>>

pickVars == <<pickRow, pickToken, pickParsed>>

infoVars == <<franchise_meta, infoPc>>

splitVars == <<trades_flat, my_fid_by_league, splitIdx, to_you, from_you, splitPc>>

buildVars == <<build, rows, buildPc>>

delVars == <<leagues, selected_ids, to_delete, delIdx, delPc>>

cacheVars == <<_LIVE_CACHE_STORE, _SERVER_CACHE, cacheNow>>

normVars == <<pending, viewer, template_rows>>

submitVars == <<submitIdx, synced_at, leagues_synced, sync_failed>>

previewVars == <<form, pending_json>>

lineupVars == <<lineup_leagues, lineup_sent, rapid_queue, rapid_idx, rapid_events, rapidCalls>>

billingVars == <<billing_user, billing_today>>

\* what a step of the sync machine leaves alone
SyncFrame == UNCHANGED <<gateVars, fetchVars, liveVars, handlerVars, sendVars, tradesVars, exportVars,
              limiterVars, loginVars, fidVars, pickVars, infoVars, splitVars,
              buildVars, delVars, cacheVars, normVars, submitVars,
              previewVars, lineupVars, billingVars>>

\* what a step of the gate machine leaves alone
GateFrame == UNCHANGED <<syncVars, fetchVars, liveVars, handlerVars, sendVars, tradesVars, exportVars,
              limiterVars, loginVars, fidVars, pickVars, infoVars, splitVars,
              buildVars, delVars, cacheVars, normVars, submitVars,
              previewVars, lineupVars, billingVars>>

\* what a step of the fetch phase leaves alone
FetchFrame == UNCHANGED <<syncVars, gateVars, liveVars, handlerVars, sendVars, tradesVars, exportVars,
              limiterVars, loginVars, fidVars, pickVars, infoVars, splitVars,
              buildVars, delVars, cacheVars, normVars, submitVars,
              previewVars, lineupVars, billingVars>>

\* what a step of the live refresh leaves alone
LiveFrame == UNCHANGED <<syncVars, gateVars, fetchVars, handlerVars, sendVars, tradesVars, exportVars,
              limiterVars, loginVars, fidVars, pickVars, infoVars, splitVars,
              buildVars, delVars, cacheVars, normVars, submitVars,
              previewVars, lineupVars, billingVars>>

\* what a step of a handler with a thread pool leaves alone
HandlerFrame == UNCHANGED <<syncVars, gateVars, fetchVars, liveVars, sendVars, tradesVars, exportVars,
              limiterVars, loginVars, fidVars, pickVars, infoVars, splitVars,
              buildVars, delVars, cacheVars, normVars, submitVars,
              previewVars, lineupVars, billingVars>>

\* what a step of the send loop leaves alone
SendFrame == UNCHANGED <<syncVars, gateVars, fetchVars, liveVars, handlerVars, tradesVars, exportVars,
              limiterVars, loginVars, fidVars, pickVars, infoVars, splitVars,
              buildVars, delVars, cacheVars, normVars, submitVars,
              previewVars, lineupVars, billingVars>>

\* what parsing a pending-trades payload leaves alone
TradesFrame ==
    UNCHANGED <<syncVars, gateVars, fetchVars, liveVars, handlerVars, sendVars, exportVars,
              limiterVars, loginVars, fidVars, pickVars, infoVars, splitVars,
              buildVars, delVars, cacheVars, normVars, submitVars,
              previewVars, lineupVars, billingVars>>

\* what an export call leaves alone
ExportFrame ==
    UNCHANGED <<syncVars, gateVars, fetchVars, liveVars, handlerVars, sendVars, tradesVars,
              limiterVars, loginVars, fidVars, pickVars, infoVars, splitVars,
              buildVars, delVars, cacheVars, normVars, submitVars,
              previewVars, lineupVars, billingVars>>

\* what a step of the rate limiter leaves alone
LimiterFrame ==
    UNCHANGED <<syncVars, gateVars, fetchVars, liveVars, handlerVars,
                sendVars, tradesVars, exportVars, loginVars, fidVars,
              pickVars, infoVars, splitVars, buildVars, delVars, cacheVars,
              normVars, submitVars, previewVars, lineupVars, billingVars>>

\* what a step of mfl_login leaves alone
LoginFrame ==
    UNCHANGED <<syncVars, gateVars, fetchVars, liveVars, handlerVars,
                sendVars, tradesVars, exportVars, limiterVars, fidVars,
              pickVars, infoVars, splitVars, buildVars, delVars, cacheVars,
              normVars, submitVars, previewVars, lineupVars, billingVars>>

\* franchise-id steps leave every other machine alone
FidFrame ==
    UNCHANGED <<syncVars, gateVars, fetchVars, liveVars, handlerVars,
                sendVars, tradesVars, exportVars, limiterVars, loginVars,
              pickVars, infoVars, splitVars, buildVars, delVars, cacheVars,
              normVars, submitVars, previewVars, lineupVars, billingVars>>

\* pick-token steps leave every other machine alone
PickFrame ==
    UNCHANGED <<syncVars, gateVars, fetchVars, liveVars, handlerVars,
                sendVars, tradesVars, exportVars, limiterVars, loginVars, fidVars,
              infoVars, splitVars, buildVars, delVars, cacheVars, normVars,
              submitVars, previewVars, lineupVars, billingVars>>

\* metadata steps write the teams table and leave the other machines alone
InfoFrame ==
    UNCHANGED <<gateVars, fetchVars, liveVars, handlerVars, sendVars,
                tradesVars, exportVars, limiterVars, loginVars, fidVars, pickVars,
              splitVars, buildVars, delVars, cacheVars, normVars, submitVars,
              previewVars, lineupVars, billingVars>>

\* steps of the trades page leave every other machine alone
SplitFrame ==
    UNCHANGED <<syncVars, gateVars, fetchVars, liveVars, handlerVars,
                sendVars, tradesVars, exportVars, limiterVars, loginVars, fidVars, pickVars, infoVars,
              buildVars, delVars, cacheVars, normVars, submitVars,
              previewVars, lineupVars, billingVars>>

\* steps of the offer builder leave every other machine alone
BuildFrame ==
    UNCHANGED <<syncVars, gateVars, fetchVars, liveVars, handlerVars,
                sendVars, tradesVars, exportVars, limiterVars, loginVars, fidVars, pickVars, infoVars, splitVars,
              delVars, cacheVars, normVars, submitVars, previewVars,
              lineupVars, billingVars>>

\* deletion steps write the teams, roster and pick tables and leave the other machines alone
DelFrame ==
    UNCHANGED <<gateVars, fetchVars, liveVars, handlerVars,
                sendVars, tradesVars, exportVars, limiterVars, loginVars, fidVars, pickVars, infoVars, splitVars, buildVars,
              cacheVars, normVars, submitVars, previewVars, lineupVars,
              billingVars>>

\* cache steps leave every other machine alone
CacheFrame ==
    UNCHANGED <<syncVars, gateVars, fetchVars, liveVars, handlerVars,
                sendVars, tradesVars, exportVars, limiterVars, loginVars, fidVars, pickVars, infoVars, splitVars, buildVars, delVars,
              normVars, submitVars, previewVars, lineupVars, billingVars>>

\* the trade normaliser touches only its own variables
NormFrame ==
    UNCHANGED <<syncVars, gateVars, fetchVars, liveVars, handlerVars,
                sendVars, tradesVars, exportVars, limiterVars, loginVars, fidVars, pickVars, infoVars, splitVars, buildVars, delVars, cacheVars,
              submitVars, previewVars, lineupVars, billingVars>>

\* the sync phase of mfl_config_submit reads the bundles and writes its own variables
SubmitFrame ==
    UNCHANGED <<syncVars, gateVars, fetchVars, liveVars, handlerVars,
                sendVars, tradesVars, exportVars, limiterVars, loginVars,
                fidVars, pickVars, infoVars, splitVars, buildVars, delVars,
                cacheVars, normVars, previewVars, lineupVars, billingVars>>

\* the offer preview only reads the database
PreviewFrame ==
    UNCHANGED <<syncVars, gateVars, fetchVars, liveVars, handlerVars,
                sendVars, tradesVars, exportVars, limiterVars, loginVars, fidVars, pickVars, infoVars, splitVars, buildVars, delVars, cacheVars, normVars, submitVars,
              lineupVars, billingVars>>

\* the lineup handlers touch only their own variables
LineupFrame ==
    UNCHANGED <<syncVars, gateVars, fetchVars, liveVars, handlerVars,
                sendVars, tradesVars, exportVars, limiterVars, loginVars, fidVars, pickVars, infoVars, splitVars, buildVars, delVars, cacheVars, normVars, submitVars, previewVars,
              billingVars>>

\* the webhook writes the User row only
BillingFrame ==
    UNCHANGED <<syncVars, gateVars, fetchVars, liveVars, handlerVars,
                sendVars, tradesVars, exportVars, limiterVars, loginVars, fidVars, pickVars, infoVars, splitVars, buildVars, delVars, cacheVars, normVars, submitVars, previewVars, lineupVars>>

None == <<"None">>

(***************************************************************************)
(* Python string and list primitives                                       *)
(***************************************************************************)
Digits == {"0", "1", "2", "3", "4", "5", "6", "7", "8", "9"}

Whitespace == {" "}

\* str.isdigit(): non-empty and every character a digit
IsDigit(s) == Len(s) > 0 /\ \A i \in 1..Len(s) : s[i] \in Digits

RECURSIVE LStrip(_)
LStrip(s) ==
    IF Len(s) > 0 /\ s[1] \in Whitespace THEN LStrip(Tail(s)) ELSE s

RECURSIVE RStrip(_)
RStrip(s) ==
    IF Len(s) > 0 /\ s[Len(s)] \in Whitespace
    THEN RStrip(SubSeq(s, 1, Len(s) - 1)) ELSE s

\* str.strip()
Strip(s) == RStrip(LStrip(s))

RECURSIVE ZFill(_, _)
\* str.zfill(width) on a string without sign
ZFill(s, width) == IF Len(s) >= width THEN s ELSE ZFill(<<"0">> \o s, width)

DigitVal(c) ==
    CASE c = "0" -> 0 [] c = "1" -> 1 [] c = "2" -> 2 [] c = "3" -> 3
      [] c = "4" -> 4 [] c = "5" -> 5 [] c = "6" -> 6 [] c = "7" -> 7
      [] c = "8" -> 8 [] c = "9" -> 9

RECURSIVE DigitsVal(_)
DigitsVal(s) ==
    IF Len(s) = 0 THEN 0
    ELSE 10 * DigitsVal(SubSeq(s, 1, Len(s) - 1)) + DigitVal(s[Len(s)])

\* int(str): [ok |-> FALSE] stands for ValueError
PyInt(str) ==
    LET s == Strip(str)
        signed == Len(s) > 0 /\ s[1] \in {"+", "-"}
        body == IF signed THEN Tail(s) ELSE s
    IN  IF IsDigit(body)
        THEN [ok |-> TRUE,
              val |-> IF signed /\ s[1] = "-" THEN 0 - DigitsVal(body)
                      ELSE DigitsVal(body)]
        ELSE [ok |-> FALSE, val |-> 0]

RECURSIVE Split(_, _)
\* str.split(sep) for a one-character separator
Split(s, sep) ==
    IF \A i \in 1..Len(s) : s[i] # sep THEN <<s>>
    ELSE LET k == CHOOSE i \in 1..Len(s) :
                      s[i] = sep /\ \A j \in 1..(i - 1) : s[j] # sep
         IN  <<SubSeq(s, 1, k - 1)>> \o Split(SubSeq(s, k + 1, Len(s)), sep)

(***************************************************************************)
(* Bags of rows: a table that may hold equal rows more than once           *)
(***************************************************************************)
EmptyTable == << >>

RowsIn(table) == DOMAIN table

AddRow(table, r) ==
    IF r \in DOMAIN table THEN [table EXCEPT ![r] = @ + 1]
    ELSE [x \in (DOMAIN table) \cup {r} |-> IF x = r THEN 1 ELSE table[x]]

RECURSIVE AddRows(_, _)
AddRows(table, rs) ==
    IF Len(rs) = 0 THEN table ELSE AddRows(AddRow(table, Head(rs)), Tail(rs))

\* Mutant: the delete has no team filter.
DeleteTeamRows_unfiltered(table, tid) == EmptyTable

\* Query.filter_by(team_id=tid).delete()
DeleteTeamRows(table, tid) ==
    [r \in {x \in DOMAIN table : x.team_id # tid} |-> table[r]]

\* the rows of a set of teams
RowsOfTeams(table, tids) ==
    [r \in {x \in DOMAIN table : x.team_id \in tids} |-> table[r]]


(***************************************************************************)
(* services/mfl_sync.py: helpers                                           *)
(***************************************************************************)
\* A team name: prefix is "franchise " when the lower-cased name starts so.
NoName == [prefix |-> "", rest |-> << >>]

PlaceholderName(fid) == [prefix |-> "franchise ", rest |-> fid]

\* Normalize franchise ids to 4 characters, zero padded; others as they are.
_fid(x) ==
    LET s == Strip(x) IN IF IsDigit(s) THEN ZFill(s, 4) ELSE s

\* Team.query.filter_by(league_id=..., mfl_id=...).first()
TeamsFor(tms, league_id, fid) ==
    {t \in tms : t.league = league_id /\ t.mfl_id = fid}

FirstTeam(ts) == CHOOSE t \in ts : \A u \in ts : t.id <= u.id

NextTeamId(tms) ==
    IF tms = {} THEN 1
    ELSE 1 + (CHOOSE m \in {t.id : t \in tms} : \A t \in tms : t.id <= m)

\* Returns the team and the teams table after the call.
_ensure_team(tms, league_id, franchise_id, name_hint) ==
    LET fid == _fid(franchise_id)
        found == TeamsFor(tms, league_id, fid)
    IN  IF found # {}
        THEN LET team == FirstTeam(found)
                 upgrade == /\ name_hint # NoName
                            /\ (team.name = NoName \/ team.name.prefix = "franchise ")
                 team2 == IF upgrade THEN [team EXCEPT !.name = name_hint] ELSE team
             IN  [team |-> team2, teams |-> (tms \ {team}) \cup {team2}]
        ELSE LET display_name ==
                     IF name_hint # NoName THEN name_hint ELSE PlaceholderName(fid)
                 team == [id |-> NextTeamId(tms), league |-> league_id,
                          mfl_id |-> fid, name |-> display_name]
             IN  [team |-> team, teams |-> tms \cup {team}]

\* Create a placeholder Player if the catalog does not have it yet.
_ensure_player(cat, pid) == cat \cup {pid}

\* fr.player_ids of a FranchiseAssets: a list of ints, yielded in order
_iter_player_ids(fr) == fr.player_ids

\* 'FP_<orig>_<season>_<round>' -> <<season, round, original_team>>, or << >>
_parse_pick_code(code) ==
    LET parts == Split(Strip(code), "_") IN
    IF Len(parts) >= 4
    THEN LET season == PyInt(parts[3])
             rnd == PyInt(parts[4])
         IN  IF season.ok /\ rnd.ok
             THEN <<season.val, rnd.val, _fid(parts[2])>>
             ELSE << >>
    ELSE << >>

RECURSIVE ParsedCodes(_)
ParsedCodes(codes) ==
    IF Len(codes) = 0 THEN << >>
    ELSE LET parsed == _parse_pick_code(Head(codes))
         IN  (IF parsed # << >> THEN <<parsed>> ELSE << >>)
                 \o ParsedCodes(Tail(codes))

\* fr.future_picks (tuples) first, then fr.picks (string codes)
_iter_picks(fr) ==
    [i \in 1..Len(fr.future_picks) |->
        <<fr.future_picks[i][1], fr.future_picks[i][2],
          IF fr.future_picks[i][3] = None THEN None
          ELSE _fid(fr.future_picks[i][3])>>]
    \o ParsedCodes(fr.picks)

RosterRows(team_id, player_ids) ==
    [i \in 1..Len(player_ids) |->
        [team_id |-> team_id, player_id |-> player_ids[i], is_starter |-> FALSE]]

DraftPickRows(team_id, pick_items) ==
    [i \in 1..Len(pick_items) |->
        [team_id |-> team_id, season |-> pick_items[i][1],
         round |-> pick_items[i][2], pick_number |-> None,
         original_team |-> IF pick_items[i][3] = None THEN None
                           ELSE _fid(pick_items[i][3])]]

(***************************************************************************)
(* Inputs of the sync machine                                              *)
(***************************************************************************)
MaxFranchises == 2      \* longest payload
MaxSyncCalls == 2       \* sync_league_assets calls in one behaviour

LeagueIds == {1}

\* FranchiseAssets as the parsers build them, and the dict variant with
\* string pick codes; franchise "1" and "0001" are the same franchise.
FranchiseInputs ==
    { [franchise_id |-> <<"1">>, name |-> NoName,
       player_ids |-> <<10, 11>>,
       future_picks |-> << <<2026, 1, <<"2">> >> >>, picks |-> << >>],
      [franchise_id |-> <<"0", "0", "0", "1">>, name |-> NoName,
       player_ids |-> <<10, 10>>,
       future_picks |-> << >>,
       picks |-> << <<"F","P","_","0","0","0","2","_","2","0","2","6","_","2">>,
                    <<"F","P","_","0","0","0","2","_","x","_","2">> >>],
      [franchise_id |-> <<"0", "0", "0", "2">>,
       name |-> [prefix |-> "", rest |-> <<"Oklahoma GMen">>],
       player_ids |-> <<12>>,
       future_picks |-> << <<2026, 1, <<"0", "0", "0", "2">> >> >>, picks |-> << >>],
      [franchise_id |-> << >>, name |-> NoName,
       player_ids |-> <<13>>, future_picks |-> << >>, picks |-> << >>] }

Payloads ==
    UNION {[1..n -> FranchiseInputs] : n \in 0..MaxFranchises}

Store == [teams |-> teams, rosters |-> rosters, draft_picks |-> draft_picks]

(***************************************************************************)
(* services/mfl_sync.py: sync_league_assets, one step per commit           *)
(***************************************************************************)
SyncInit ==
    /\ teams = {}
    /\ rosters = EmptyTable
    /\ draft_picks = EmptyTable
    /\ players = {}
    /\ syncPc = "idle"
    /\ syncLeague = 1
    /\ franchises = << >>
    /\ syncIdx = 1
    /\ syncCalls = 0
    /\ syncBefore = [teams |-> {}, rosters |-> EmptyTable, draft_picks |-> EmptyTable]
    /\ syncRepeat = FALSE

\* the call is entered with a league and a parsed payload
sync_league_assets_call(league_id, frs) ==
    /\ SyncFrame
    /\ syncPc \in {"idle", "done", "failed"}
    /\ syncCalls < MaxSyncCalls
    /\ syncCalls' = syncCalls + 1
    /\ syncRepeat' = (syncPc = "done" /\ league_id = syncLeague /\ frs = franchises)
    /\ syncLeague' = league_id
    /\ franchises' = frs
    /\ syncIdx' = 1
    /\ syncBefore' = Store
    /\ syncPc' = "clear"
    /\ UNCHANGED <<teams, rosters, draft_picks, players>>

\* lines 221-224: an entry without a franchise id is passed over
sync_league_assets_skip ==
    /\ SyncFrame
    /\ syncPc = "clear"
    /\ syncIdx <= Len(franchises)
    /\ franchises[syncIdx].franchise_id = << >>
    /\ syncIdx' = syncIdx + 1
    /\ UNCHANGED <<teams, rosters, draft_picks, players, syncPc, syncLeague,
                   franchises, syncCalls, syncBefore, syncRepeat>>

\* Mutant: the existing rows of the team are not deleted (an additive sync).
sync_league_assets_clear_additive ==
    /\ SyncFrame
    /\ syncPc = "clear"
    /\ syncIdx <= Len(franchises)
    /\ franchises[syncIdx].franchise_id # << >>
    /\ LET fr == franchises[syncIdx]
           et == _ensure_team(teams, syncLeague, _fid(fr.franchise_id), fr.name)
       IN  teams' = et.teams
    /\ syncPc' = "rebuild"
    /\ UNCHANGED <<rosters, draft_picks, players, syncLeague, franchises, syncIdx,
                   syncCalls, syncBefore, syncRepeat>>

\* lines 225-242: resolve the team, delete its rows, commit
sync_league_assets_clear ==
    /\ SyncFrame
    /\ syncPc = "clear"
    /\ syncIdx <= Len(franchises)
    /\ franchises[syncIdx].franchise_id # << >>
    /\ LET fr == franchises[syncIdx]
           franchise_id == _fid(fr.franchise_id)
           et == _ensure_team(teams, syncLeague, franchise_id, fr.name)
       IN  /\ teams' = et.teams
           /\ rosters' = DeleteTeamRows(rosters, et.team.id)
           /\ draft_picks' = DeleteTeamRows(draft_picks, et.team.id)
    /\ syncPc' = "rebuild"
    /\ UNCHANGED <<players, syncLeague, franchises, syncIdx, syncCalls,
                   syncBefore, syncRepeat>>

\* lines 244-264: re-insert the roster and pick rows, commit
sync_league_assets_rebuild ==
    /\ SyncFrame
    /\ syncPc = "rebuild"
    /\ LET fr == franchises[syncIdx]
           team == FirstTeam(TeamsFor(teams, syncLeague, _fid(fr.franchise_id)))
           player_ids == _iter_player_ids(fr)
           pick_items == _iter_picks(fr)
       IN  /\ players' = players \cup {player_ids[i] : i \in 1..Len(player_ids)}
           /\ rosters' = AddRows(rosters, RosterRows(team.id, player_ids))
           /\ draft_picks' = AddRows(draft_picks, DraftPickRows(team.id, pick_items))
    /\ syncIdx' = syncIdx + 1
    /\ syncPc' = "clear"
    /\ UNCHANGED <<teams, syncLeague, franchises, syncCalls, syncBefore, syncRepeat>>

\* lines 266-270: the loop is over
sync_league_assets_return ==
    /\ SyncFrame
    /\ syncPc = "clear"
    /\ syncIdx > Len(franchises)
    /\ syncPc' = "done"
    /\ UNCHANGED <<teams, rosters, draft_picks, players, syncLeague, franchises,
                   syncIdx, syncCalls, syncBefore, syncRepeat>>

\* Mutant: the whole call is one transaction, so a failure undoes the
\* franchises already processed as well.
sync_league_assets_raise_undo_all ==
    /\ SyncFrame
    /\ \/ /\ syncPc = "clear"
          /\ syncIdx <= Len(franchises)
          /\ franchises[syncIdx].franchise_id # << >>
       \/ syncPc = "rebuild"
    /\ syncPc' = "failed"
    /\ teams' = syncBefore.teams
    /\ rosters' = syncBefore.rosters
    /\ draft_picks' = syncBefore.draft_picks
    /\ UNCHANGED <<players, syncLeague, franchises, syncIdx, syncCalls,
                   syncBefore, syncRepeat>>

\* A database statement or commit of the current franchise raises; the caller
\* (mfl/routes.py:541-544) rolls the session back: what was committed stays.
sync_league_assets_raise ==
    /\ SyncFrame
    /\ \/ /\ syncPc = "clear"
          /\ syncIdx <= Len(franchises)
          /\ franchises[syncIdx].franchise_id # << >>
       \/ syncPc = "rebuild"
    /\ syncPc' = "failed"
    /\ UNCHANGED <<teams, rosters, draft_picks, players, syncLeague, franchises,
                   syncIdx, syncCalls, syncBefore, syncRepeat>>

SyncNext ==
    \/ \E league_id \in LeagueIds, frs \in Payloads :
           sync_league_assets_call(league_id, frs)
    \/ sync_league_assets_skip
    \/ sync_league_assets_clear
    \/ sync_league_assets_rebuild
    \/ sync_league_assets_return
    \/ sync_league_assets_raise

(***************************************************************************)
(* Properties of sync_league_assets                                        *)
(***************************************************************************)
FidAt(i) == _fid(franchises[i].franchise_id)

\* positions of the payload that name a franchise
Named == {i \in 1..Len(franchises) : franchises[i].franchise_id # << >>}

TeamIdsOf(tms, fid) == {t.id : t \in TeamsFor(tms, syncLeague, fid)}

\* the roster and pick rows a store holds for a franchise of the league
RosterRowsOf(store, fid) == RowsOfTeams(store.rosters, TeamIdsOf(store.teams, fid))

PickRowsOf(store, fid) == RowsOfTeams(store.draft_picks, TeamIdsOf(store.teams, fid))

\* the store holds for the franchise exactly the rows of payload entry i
SyncedFrom(i) ==
    LET fid == FidAt(i)
        tids == TeamIdsOf(teams, fid)
    IN  /\ Cardinality(tids) = 1
        /\ \A tid \in tids :
             /\ RosterRowsOf(Store, fid) =
                    AddRows(EmptyTable, RosterRows(tid, _iter_player_ids(franchises[i])))
             /\ PickRowsOf(Store, fid) =
                    AddRows(EmptyTable, DraftPickRows(tid, _iter_picks(franchises[i])))

Untouched(fid) ==
    /\ RosterRowsOf(Store, fid) = RosterRowsOf(syncBefore, fid)
    /\ PickRowsOf(Store, fid) = PickRowsOf(syncBefore, fid)

\* the last entry before position k that names franchise fid
LastBefore(fid, k) ==
    CHOOSE i \in Named : /\ i < k /\ FidAt(i) = fid
                         /\ \A j \in Named : (j < k /\ FidAt(j) = fid) => j <= i

\* C1: a call that repeats the previous completed call (same league, same
\* payload) ends with the same roster and draft-pick rows, each as many
\* times as before: nothing duplicated, nothing lost.
C1_IdempotentAssetSync ==
    (syncPc = "done" /\ syncRepeat) =>
        /\ rosters = syncBefore.rosters
        /\ draft_picks = syncBefore.draft_picks
        /\ teams = syncBefore.teams

C1_Witness ==
    /\ syncPc = "done" /\ syncRepeat
    /\ \E r \in RowsIn(rosters) : rosters[r] = 2
    /\ draft_picks # EmptyTable
    /\ Len(franchises) = 2

\* C2 (as claimed): when the call fails on a franchise, the rows stored for
\* that franchise are those from before the call.  Only failures on a
\* franchise the payload has not named earlier are looked at.
C2_FailedSyncKeepsSnapshot ==
    (syncPc = "failed" /\ \A j \in Named : j < syncIdx => FidAt(j) # FidAt(syncIdx))
        => Untouched(FidAt(syncIdx))

Upper == <<"A","B","C","D","E","F","G","H","I","J","K","L","M",
           "N","O","P","Q","R","S","T","U","V","W","X","Y","Z">>

LowerLetters == <<"a","b","c","d","e","f","g","h","i","j","k","l","m",
                  "n","o","p","q","r","s","t","u","v","w","x","y","z">>

LowerChar(c) ==
    IF \E i \in 1..Len(Upper) : Upper[i] = c
    THEN LowerLetters[CHOOSE i \in 1..Len(Upper) : Upper[i] = c]
    ELSE c

\* str.lower()
Lower(s) == [i \in 1..Len(s) |-> LowerChar(s[i])]

K_free == <<"f","r","e","e">>

K_mgr5 == <<"m","g","r","5">>

K_mgr12 == <<"m","g","r","1","2">>

K_unlimited == <<"u","n","l","i","m","i","t","e","d">>

K_founder == <<"f","o","u","n","d","e","r">>

PLAN_RULES ==
    (K_free :> [league_cap |-> 3, mass_offer_daily_cap |-> 0,
                aggregate_showdown |-> FALSE, saved_presets |-> FALSE,
                free_mass_offer_weekly |-> 1, free_recipients_cap |-> 6])
    @@ (K_mgr5 :> [league_cap |-> 5, mass_offer_daily_cap |-> 3,
                   aggregate_showdown |-> TRUE, saved_presets |-> TRUE])
    @@ (K_mgr12 :> [league_cap |-> 12, mass_offer_daily_cap |-> 9999,
                    aggregate_showdown |-> TRUE, saved_presets |-> TRUE])
    @@ (K_unlimited :> [league_cap |-> 50, mass_offer_daily_cap |-> 9999,
                        aggregate_showdown |-> TRUE, saved_presets |-> TRUE])
    @@ (K_founder :> [league_cap |-> 9999, mass_offer_daily_cap |-> 9999,
                      aggregate_showdown |-> TRUE, saved_presets |-> TRUE])

_ALIASES ==
    (<<"p","w","r","5","0">> :> K_unlimited)
    @@ (<<"p","o","w","e","r","5","0">> :> K_unlimited)
    @@ (<<"p","o","w","e","r","_","5","0">> :> K_unlimited)
    @@ (<<"p","o","w","e","r","-","5","0">> :> K_unlimited)
    @@ (K_free :> K_free)
    @@ (K_mgr5 :> K_mgr5)
    @@ (K_mgr12 :> K_mgr12)
    @@ (K_unlimited :> K_unlimited)
    @@ (K_founder :> K_founder)

\* dict.get(key, default)
DictGet(d, k, default) == IF k \in DOMAIN d THEN d[k] ELSE default

_norm_plan(value) ==
    IF value = None THEN K_free
    ELSE LET p == Lower(Strip(value))
             q == DictGet(_ALIASES, p, p)
         IN  IF q \in DOMAIN PLAN_RULES THEN q ELSE K_free

\* founder_expires_at is None or a day number
_is_founder_active(u, day) ==
    IF u.founder_expires_at = None THEN FALSE
    ELSE u.founder_expires_at[1] >= day

\* the capability dict, with the plan key beside it
get_entitlements(u, day) ==
    IF u.unlimited
    THEN [plan_key |-> K_unlimited, rules |-> PLAN_RULES[K_unlimited]]
    ELSE LET plan == _norm_plan(u.plan)
         IN  IF plan = K_founder
             THEN IF _is_founder_active(u, day)
                  THEN [plan_key |-> K_founder, rules |-> PLAN_RULES[K_founder]]
                  ELSE [plan_key |-> K_free, rules |-> PLAN_RULES[K_free]]
             ELSE [plan_key |-> plan,
                   rules |-> DictGet(PLAN_RULES, plan, PLAN_RULES[K_free])]

(***************************************************************************)
(* Usage store: services/store.py.  Every function is one statement and    *)
(* one commit, so each is atomic; they are written over the tables.        *)
(***************************************************************************)
NumThreads == 2

MaxGateCalls == 3

MaxBonus == 2

MaxInitialUsed == 3

MaxDay == 2

MaxUnknown == 1

\* weekday of day 0 (Monday is 0, as date.weekday())
FirstWeekday == 5

DaysPerWeek == 7

Threads == 1..NumThreads

Days == 0..MaxDay

\* len(items) of the posted batch
RecipientCounts == {4, 6, 7}

Min(a, b) == IF a < b THEN a ELSE b

\* d - timedelta(days=d.weekday())
week_monday_key(d) == d - ((d + FirstWeekday) % DaysPerWeek)

WeekKeys == {week_monday_key(d) : d \in Days}

get_today_count(counts, d) == IF d \in DOMAIN counts THEN counts[d] ELSE 0

increment_today_count(counts, d) ==
    IF d \in DOMAIN counts
    THEN [counts EXCEPT ![d] = @ + 1]
    ELSE counts @@ (d :> 1)

get_bonus_balance(b) == b

\* Mutant: the balance is left as it is.
use_one_bonus_keep(b) == b

\* GREATEST(bonus_mass_offers - 1, 0)
use_one_bonus(b) == IF b - 1 > 0 THEN b - 1 ELSE 0

get_weekly_free_used(used, week_monday) == week_monday \in used

\* Mutant: the reservation is not stored.
mark_weekly_free_used_lost(used, week_monday) == used

mark_weekly_free_used(used, week_monday) == used \cup {week_monday}

(***************************************************************************)
(* services/guards.py: consume_mass_offer, called by perform_offers        *)
(* (offers/routes_confirm.py).  One step per database statement.           *)
(***************************************************************************)
\* users.plan as stored: "FREE" and "mgr5"
GateUsers ==
    { [plan |-> <<"F","R","E","E">>, unlimited |-> FALSE, founder_expires_at |-> None],
      [plan |-> K_mgr5, unlimited |-> FALSE, founder_expires_at |-> None] }

Ent == get_entitlements(user, today)

plan_key == DictGet(Ent, "plan_key", K_free)

daily_cap == DictGet(Ent.rules, "mass_offer_daily_cap", 0)

recipients_cap == DictGet(Ent.rules, "free_recipients_cap", 6)

MsgRecipients ==
    <<"Free plan limit is ", recipients_cap,
      " recipients per mass send. Upgrade to send to all.">>

MsgWeekly == <<"You've used your weekly free mass offer. Upgrade to send more.">>

MsgNoPlan ==
    <<"Your plan does not allow mass offers. Upgrade to enable this feature.">>

MsgDailyCap ==
    <<"Daily mass-offer cap reached (", daily_cap,
      "). Try again tomorrow or upgrade your plan.">>

\* n, key, msg: locals of the call; wrote: write statements it has executed;
\* units: quota units those writes took from the store; sent: proposals sent
IdleReq == [n |-> 0, key |-> 0, msg |-> None, wrote |-> 0, units |-> 0, sent |-> 0]

\* what the store holds for the user on day d
Counters(d) ==
    [used |-> get_today_count(dayCount, d),
     bonus |-> get_bonus_balance(bonus),
     weekly |-> get_weekly_free_used(weeklyUsed, week_monday_key(d))]

CountersAfter(d) ==
    [used |-> get_today_count(dayCount', d),
     bonus |-> get_bonus_balance(bonus'),
     weekly |-> get_weekly_free_used(weeklyUsed', week_monday_key(d))]

\* A user with some sends behind them; the tables the plan's branch of the
\* gate never reads start empty.
GateInitWith(log) ==
    /\ user \in GateUsers
    /\ today = 0
    /\ \E used0 \in 0..Min(daily_cap, MaxInitialUsed) :
          /\ dayCount = IF used0 = 0 THEN << >> ELSE (0 :> used0)
          /\ dailyGrants = [d \in Days |-> IF d = 0 THEN used0 ELSE 0]
    /\ \E w0 \in {FALSE, plan_key = K_free} :
          /\ weeklyUsed = IF w0 THEN {week_monday_key(0)} ELSE {}
          /\ freeGrants = [w \in WeekKeys |->
                              IF w0 /\ w = week_monday_key(0) THEN 1 ELSE 0]
    /\ bonus \in 0..(IF plan_key = K_free THEN 0 ELSE MaxBonus)
    /\ bonusHeld = bonus
    /\ bonusGrants = 0
    /\ pc = [t \in Threads |-> "idle"]
    /\ req = [t \in Threads |-> IdleReq]
    /\ gateCalls = 0
    /\ gateLog = << >>
    /\ logOn = log

GateInit == GateInitWith(TRUE)

GateConcInit == GateInitWith(FALSE)

\* the call is entered: what it is given and what the store holds
LogOpen(n) ==
    IF logOn
    THEN Append(gateLog, [n |-> n, day |-> today, before |-> Counters(today),
                          returned |-> FALSE, ok |-> FALSE, msg |-> None,
                          after |-> Counters(today)])
    ELSE gateLog

\* consume_mass_offer returns (ok, msg)
LogReturn(log, ok, msg) ==
    IF logOn
    THEN LET e == log[Len(log)]
         IN  [log EXCEPT ![Len(log)] =
                 [e EXCEPT !.returned = TRUE, !.ok = ok, !.msg = msg,
                           !.after = CountersAfter(e.day)]]
    ELSE log

\* midnight passes
AdvanceDay ==
    /\ GateFrame
    /\ today < MaxDay
    /\ today' = today + 1
    /\ UNCHANGED <<user, dayCount, weeklyUsed, bonus, pc, req, gateCalls, gateLog,
                   logOn, dailyGrants, freeGrants, bonusGrants, bonusHeld>>

\* perform_offers for a Free user, up to the read of the weekly flag
\* (routes_confirm.py:438-458, guards.py:141-155)
perform_offers_free(t, n) ==
    /\ GateFrame
    /\ pc[t] = "idle"
    /\ gateCalls < MaxGateCalls
    /\ plan_key = K_free
    /\ gateCalls' = gateCalls + 1
    /\ UNCHANGED <<user, today, dayCount, weeklyUsed, bonus, logOn, dailyGrants,
                   freeGrants, bonusGrants, bonusHeld>>
    /\ LET week_key == week_monday_key(today)
       IN  IF n > recipients_cap
           THEN /\ pc' = [pc EXCEPT ![t] = "denied"]
                /\ req' = [req EXCEPT ![t] = [IdleReq EXCEPT !.n = n, !.msg = MsgRecipients]]
                /\ gateLog' = LogReturn(LogOpen(n), FALSE, MsgRecipients)
           ELSE IF get_weekly_free_used(weeklyUsed, week_key)
           THEN /\ pc' = [pc EXCEPT ![t] = "denied"]
                /\ req' = [req EXCEPT ![t] = [IdleReq EXCEPT !.n = n, !.msg = MsgWeekly]]
                /\ gateLog' = LogReturn(LogOpen(n), FALSE, MsgWeekly)
           ELSE /\ pc' = [pc EXCEPT ![t] = "free_mark"]
                /\ req' = [req EXCEPT ![t] = [IdleReq EXCEPT !.n = n, !.key = week_key]]
                /\ gateLog' = LogOpen(n)

\* guards.py:157-163: reserve the weekly free send, allow
consume_free_mark(t) ==
    /\ GateFrame
    /\ pc[t] = "free_mark"
    /\ weeklyUsed' = mark_weekly_free_used(weeklyUsed, req[t].key)
    /\ freeGrants' = [freeGrants EXCEPT ![req[t].key] = @ + 1]
    /\ pc' = [pc EXCEPT ![t] = "allowed"]
    /\ req' = [req EXCEPT ![t].key = 0, ![t].wrote = @ + 1,
                          ![t].units = @ + Cardinality(weeklyUsed' \ weeklyUsed)]
    /\ UNCHANGED <<user, today, dayCount, bonus, gateCalls, logOn, dailyGrants,
                   bonusGrants, bonusHeld>>
    /\ gateLog' = LogReturn(gateLog, TRUE, None)

\* perform_offers for a paid user, up to the read of today's counter
\* (routes_confirm.py:438-458, guards.py:141-146 and 166-177)
perform_offers_paid(t, n) ==
    /\ GateFrame
    /\ pc[t] = "idle"
    /\ gateCalls < MaxGateCalls
    /\ plan_key # K_free
    /\ gateCalls' = gateCalls + 1
    /\ UNCHANGED <<user, today, dayCount, weeklyUsed, bonus, logOn, dailyGrants,
                   freeGrants, bonusGrants, bonusHeld>>
    /\ LET used_today == get_today_count(dayCount, today)
       IN  IF daily_cap > 0 /\ used_today < daily_cap
           THEN /\ pc' = [pc EXCEPT ![t] = "paid_inc"]
                /\ req' = [req EXCEPT ![t] = [IdleReq EXCEPT !.n = n, !.key = today]]
           ELSE /\ pc' = [pc EXCEPT ![t] = "bonus_read"]
                /\ req' = [req EXCEPT ![t] = [IdleReq EXCEPT !.n = n]]
    /\ gateLog' = LogOpen(n)

\* guards.py:177-180: under the cap, increment and allow
consume_paid_inc(t) ==
    /\ GateFrame
    /\ pc[t] = "paid_inc"
    /\ dayCount' = increment_today_count(dayCount, req[t].key)
    /\ dailyGrants' = [dailyGrants EXCEPT ![req[t].key] = @ + 1]
    /\ pc' = [pc EXCEPT ![t] = "allowed"]
    /\ req' = [req EXCEPT ![t].key = 0, ![t].wrote = @ + 1,
                          ![t].units = @ + (get_today_count(dayCount', req[t].key)
                                            - get_today_count(dayCount, req[t].key))]
    /\ UNCHANGED <<user, today, weeklyUsed, bonus, gateCalls, logOn, freeGrants,
                   bonusGrants, bonusHeld>>
    /\ gateLog' = LogReturn(gateLog, TRUE, None)

\* guards.py:171-175 and 183-189: read the bonus balance; none left, deny
consume_bonus_read(t) ==
    /\ GateFrame
    /\ pc[t] = "bonus_read"
    /\ UNCHANGED <<user, today, dayCount, weeklyUsed, bonus, gateCalls, logOn,
                   dailyGrants, freeGrants, bonusGrants, bonusHeld>>
    /\ IF get_bonus_balance(bonus) > 0
       THEN /\ pc' = [pc EXCEPT ![t] = "bonus_use"]
            /\ UNCHANGED <<req, gateLog>>
       ELSE LET msg == IF daily_cap <= 0 THEN MsgNoPlan ELSE MsgDailyCap
            IN  /\ pc' = [pc EXCEPT ![t] = "denied"]
                /\ req' = [req EXCEPT ![t].msg = msg]
                /\ gateLog' = LogReturn(gateLog, FALSE, msg)

\* guards.py:173-174 and 185-186: spend one bonus send, allow
consume_bonus_use(t) ==
    /\ GateFrame
    /\ pc[t] = "bonus_use"
    /\ bonus' = use_one_bonus(bonus)
    /\ bonusGrants' = bonusGrants + 1
    /\ pc' = [pc EXCEPT ![t] = "allowed"]
    /\ req' = [req EXCEPT ![t].wrote = @ + 1, ![t].units = @ + (bonus - bonus')]
    /\ UNCHANGED <<user, today, dayCount, weeklyUsed, gateCalls, logOn,
                   dailyGrants, freeGrants, bonusHeld>>
    /\ gateLog' = LogReturn(gateLog, TRUE, None)

\* routes_confirm.py:459-461: the gate said no; flash and redirect
perform_offers_redirect(t) ==
    /\ GateFrame
    /\ pc[t] = "denied"
    /\ pc' = [pc EXCEPT ![t] = "idle"]
    /\ req' = [req EXCEPT ![t] = IdleReq]
    /\ UNCHANGED <<user, today, dayCount, weeklyUsed, bonus, gateCalls, gateLog,
                   logOn, dailyGrants, freeGrants, bonusGrants, bonusHeld>>

\* Mutant: the proposals go out whatever the gate returned.
perform_offers_send_ungated(t) ==
    /\ GateFrame
    /\ pc[t] \in {"allowed", "denied"}
    /\ \E unknown \in 0..Min(req[t].n, MaxUnknown) :
          req' = [req EXCEPT ![t].sent = req[t].n - unknown]
    /\ pc' = [pc EXCEPT ![t] = "sent"]
    /\ UNCHANGED <<user, today, dayCount, weeklyUsed, bonus, gateCalls, gateLog,
                   logOn, dailyGrants, freeGrants, bonusGrants, bonusHeld>>

\* routes_confirm.py:463-523: one proposal per item whose league is known
perform_offers_send(t) ==
    /\ GateFrame
    /\ pc[t] = "allowed"
    /\ \E unknown \in 0..Min(req[t].n, MaxUnknown) :
          req' = [req EXCEPT ![t].sent = req[t].n - unknown]
    /\ pc' = [pc EXCEPT ![t] = "sent"]
    /\ UNCHANGED <<user, today, dayCount, weeklyUsed, bonus, gateCalls, gateLog,
                   logOn, dailyGrants, freeGrants, bonusGrants, bonusHeld>>

\* routes_confirm.py:525-531: render the result page
perform_offers_render(t) ==
    /\ GateFrame
    /\ pc[t] = "sent"
    /\ pc' = [pc EXCEPT ![t] = "idle"]
    /\ req' = [req EXCEPT ![t] = IdleReq]
    /\ UNCHANGED <<user, today, dayCount, weeklyUsed, bonus, gateCalls, gateLog,
                   logOn, dailyGrants, freeGrants, bonusGrants, bonusHeld>>

\* one request thread at a time
GateNext ==
    \/ AdvanceDay
    \/ \E n \in RecipientCounts : perform_offers_free(1, n)
    \/ consume_free_mark(1)
    \/ \E n \in RecipientCounts : perform_offers_paid(1, n)
    \/ consume_paid_inc(1)
    \/ consume_bonus_read(1)
    \/ consume_bonus_use(1)
    \/ perform_offers_redirect(1)
    \/ perform_offers_send(1)
    \/ perform_offers_render(1)

\* request threads side by side
GateConcNext ==
    \/ AdvanceDay
    \/ \E t \in Threads, n \in RecipientCounts : perform_offers_free(t, n)
    \/ \E t \in Threads : consume_free_mark(t)
    \/ \E t \in Threads, n \in RecipientCounts : perform_offers_paid(t, n)
    \/ \E t \in Threads : consume_paid_inc(t)
    \/ \E t \in Threads : consume_bonus_read(t)
    \/ \E t \in Threads : consume_bonus_use(t)
    \/ \E t \in Threads : perform_offers_redirect(t)
    \/ \E t \in Threads : perform_offers_send(t)
    \/ \E t \in Threads : perform_offers_render(t)

(***************************************************************************)
(* Properties of the gate                                                  *)
(***************************************************************************)
\* calls of the log whose gate has returned
Returned == {i \in 1..Len(gateLog) : gateLog[i].returned}

SameWeek(i, j) == week_monday_key(gateLog[i].day) = week_monday_key(gateLog[j].day)

\* C4 (as claimed): every allowed send has taken exactly one unit of quota
\* from the store with exactly one write (the weekly flag set, today's
\* counter raised by 1, or the bonus balance lowered by 1), whatever the
\* number of offers in its batch.
C4_AllowedSendTakesOneUnit ==
    \A t \in Threads :
        pc[t] \in {"allowed", "sent"} => (req[t].wrote = 1 /\ req[t].units = 1)

\* C5 (as claimed): for a Free user with a recipient cap of 6, a batch of 4
\* entered with the week's allowance unused is allowed and leaves the flag
\* used, and every later batch of the same week is denied with the
\* weekly-exhausted message.
C5_SecondBatchWeeklyMessage ==
    (plan_key = K_free /\ recipients_cap = 6) =>
        \A i \in Returned :
            (gateLog[i].n = 4 /\ ~gateLog[i].before.weekly) =>
                /\ gateLog[i].ok
                /\ gateLog[i].after.weekly
                /\ \A j \in Returned :
                      (j > i /\ SameWeek(i, j)) =>
                          (~gateLog[j].ok /\ gateLog[j].msg = MsgWeekly)

\* C5 (amended): the same, but a later batch of the same week is denied
\* with the weekly-exhausted message only when it has at most 6 recipients;
\* a larger one is denied with the recipient-limit message.
C5_SecondBatchDenied ==
    (plan_key = K_free /\ recipients_cap = 6) =>
        \A i \in Returned :
            (gateLog[i].n = 4 /\ ~gateLog[i].before.weekly) =>
                /\ gateLog[i].ok
                /\ gateLog[i].after.weekly
                /\ \A j \in Returned :
                      (j > i /\ SameWeek(i, j)) =>
                          /\ ~gateLog[j].ok
                          /\ gateLog[j].msg =
                                 IF gateLog[j].n > 6 THEN MsgRecipients ELSE MsgWeekly

C5_Witness ==
    /\ plan_key = K_free /\ recipients_cap = 6
    /\ Returned = {1, 2, 3}
    /\ gateLog[1].n = 4 /\ ~gateLog[1].before.weekly /\ gateLog[1].ok
    /\ SameWeek(1, 2) /\ gateLog[2].n = 7 /\ gateLog[2].msg = MsgRecipients
    /\ SameWeek(1, 3) /\ gateLog[3].n = 6 /\ gateLog[3].msg = MsgWeekly
    /\ gateLog[3].day # gateLog[1].day

\* C6: for a paid user with a daily cap of 3, three batches entered one
\* after another on a day that starts them with 3 sends used and a bonus
\* balance of 2 are: allowed leaving bonus 1, allowed leaving bonus 0,
\* denied with the daily-cap message.
C6_BonusThenDenied ==
    (plan_key # K_free /\ daily_cap = 3) =>
        \A i \in Returned :
            ( /\ {i + 1, i + 2} \subseteq Returned
              /\ gateLog[i + 1].day = gateLog[i].day
              /\ gateLog[i + 2].day = gateLog[i].day
              /\ gateLog[i].before.used = 3
              /\ gateLog[i].before.bonus = 2 ) =>
                /\ gateLog[i].ok /\ gateLog[i].after.bonus = 1
                /\ gateLog[i + 1].ok /\ gateLog[i + 1].after.bonus = 0
                /\ ~gateLog[i + 2].ok /\ gateLog[i + 2].msg = MsgDailyCap
                /\ gateLog[i + 2].after.used = 3

C6_Witness ==
    /\ plan_key # K_free /\ daily_cap = 3
    /\ Returned = {1, 2, 3}
    /\ gateLog[1].before.used = 3 /\ gateLog[1].before.bonus = 2
    /\ gateLog[2].day = gateLog[1].day /\ gateLog[3].day = gateLog[1].day
    /\ gateLog[1].n = 7
    /\ ~gateLog[3].ok

\* C7 (as claimed): under every interleaving, the sends allowed against the
\* daily counter on one day stay within the plan's daily cap, and a Free
\* user is allowed at most one send per week.
C7_CapsHoldUnderInterleaving ==
    /\ plan_key # K_free => \A d \in Days : dailyGrants[d] <= daily_cap
    /\ \A w \in WeekKeys : freeGrants[w] <= 1

\* C8 (as claimed): under every interleaving, the sends allowed by spending
\* bonus are no more than the bonus units the user held.
C8_BonusPaysOnce == bonusGrants <= bonusHeld

\* C9: a denied send carries a reason, has written nothing to the usage
\* store, leaves the three counters as they were when it was entered, and
\* sends no proposal.
C9_DeniedHasNoEffect ==
    /\ \A t \in Threads :
          /\ pc[t] = "denied" => req[t].msg # None
          /\ req[t].msg # None =>
                (req[t].wrote = 0 /\ req[t].units = 0 /\ req[t].sent = 0)
    /\ \A i \in Returned :
          ~gateLog[i].ok =>
              (gateLog[i].msg # None /\ gateLog[i].after = gateLog[i].before)

C9_Witness ==
    /\ pc[1] = "idle"
    /\ Returned = {1, 2, 3}
    /\ ~gateLog[1].ok /\ gateLog[1].msg = MsgRecipients
    /\ ~gateLog[2].ok /\ gateLog[2].msg = MsgWeekly
    /\ gateLog[2].after.weekly
    /\ ~gateLog[3].ok

(***************************************************************************)
(* mfl/routes.py: the fetch phase of mfl_config_submit.  One _worker per   *)
(* host group, all running side by side in the thread pool; a request is   *)
(* in flight from the call of requests.get to its return.                  *)
(***************************************************************************)
MaxTargets == 2

ApiHost == "api.myfantasyleague.com"

LeagueHosts == {"www43.myfantasyleague.com", "www44.myfantasyleague.com"}

Hosts == LeagueHosts \cup {ApiHost}

\* "" stands for a league whose host is not known (None)
PreferHosts == LeagueHosts \cup {""}

\* lines 421-423: the host key of a fetch spec
HostKey(spec) == IF spec.prefer_host # "" THEN spec.prefer_host ELSE ApiHost

\* lines 420-423: the specs of each host key, in order
groups ==
    [host \in {HostKey(fetch_specs[i]) : i \in 1..Len(fetch_specs)} |->
        SelectSeq(fetch_specs, LAMBDA spec : HostKey(spec) = host)]

\* line 443: the bundle a worker starts for a spec
NewOut(spec, host_key) ==
    [lid |-> spec.lid, host_used |-> host_key, errors |-> 0,
     fallback_used |-> FALSE, assets |-> "none", standings |-> FALSE,
     assets_seen |-> "none", fallbacks |-> 0]

\* the stages of _worker whose request goes to the API host through
\* api_client (lines 446, 460, 477)
ApiStages == {"info", "api_assets", "api_standings"}

\* the stages whose request goes through data_client (lines 457-475)
DataStages == {"assets", "rosters", "picks", "standings"}

\* lines 429-433: data_client of the API group is api_client itself
TargetHost(host_key, stage) == IF stage \in ApiStages THEN ApiHost ELSE host_key

\* what a request can come back with: a good body, the body
\* "<error>API requires logged in user</error>", another error document,
\* a document whose franchises all have no players and no picks, or an
\* exception
Responses == {"ok", "blocked", "error", "empty", "raise"}

FetchInit ==
    /\ \E k \in 1..MaxTargets :
          \E hosts \in [1..k -> PreferHosts] :
              fetch_specs = [i \in 1..k |-> [lid |-> i, prefer_host |-> hosts[i]]]
    /\ worker = [host \in DOMAIN groups |->
                    [idx |-> 1, stage |-> "info", flying |-> FALSE,
                     out |-> NewOut(groups[host][1], host), results |-> << >>,
                     collected |-> FALSE]]
    /\ fetched = << >>

\* mfl_client.py:215: requests.get is called
_worker_request(host_key) ==
    /\ FetchFrame
    /\ host_key \in DOMAIN worker
    /\ worker[host_key].stage \in ApiStages \cup DataStages
    /\ ~worker[host_key].flying
    /\ worker' = [worker EXCEPT ![host_key].flying = TRUE,
                                ![host_key].out.fallbacks =
                                    IF worker[host_key].stage = "rosters" THEN @ + 1 ELSE @]
    /\ UNCHANGED <<fetch_specs, fetched>>

\* line 481 and the loop of line 441: the bundle is finished, on to the next
NextSpec(w, host_key, out) ==
    LET specs == groups[host_key]
    IN  IF w.idx < Len(specs)
        THEN [w EXCEPT !.idx = @ + 1, !.stage = "info", !.flying = FALSE,
                       !.out = NewOut(specs[w.idx + 1], host_key),
                       !.results = Append(@, out)]
        ELSE [w EXCEPT !.stage = "done", !.flying = FALSE,
                       !.results = Append(@, out)]

\* the request returns or raises; lines 446-480 up to the next request
_worker_response(host_key, resp) ==
    /\ FetchFrame
    /\ host_key \in DOMAIN worker
    /\ worker[host_key].flying
    /\ LET w == worker[host_key]
           out == w.out
           goto(stage, o) == [w EXCEPT !.stage = stage, !.flying = FALSE, !.out = o]
           failed == NextSpec(w, host_key, [out EXCEPT !.errors = @ + 1])
       IN  worker' = [worker EXCEPT ![host_key] =
             CASE w.stage = "picks" ->
                    goto("standings", [out EXCEPT !.assets = "fallback"])
               [] resp = "raise" -> failed
               [] w.stage = "info" -> goto("assets", out)
               [] w.stage = "assets" /\ resp = "blocked" -> goto("api_assets", out)
               [] w.stage = "assets" ->
                    goto("standings", [out EXCEPT !.assets = "assets",
                                                  !.assets_seen = resp])
               [] w.stage = "api_assets" /\ resp = "blocked" ->
                    goto("rosters", [out EXCEPT !.fallback_used = TRUE,
                                                !.assets_seen = resp])
               [] w.stage = "api_assets" ->
                    goto("standings", [out EXCEPT !.assets = "assets",
                                                  !.assets_seen = resp])
               [] w.stage = "rosters" -> goto("picks", out)
               [] w.stage = "standings" /\ resp = "blocked" ->
                    goto("api_standings", out)
               [] OTHER -> NextSpec(w, host_key, [out EXCEPT !.standings = TRUE])]
    /\ UNCHANGED <<fetch_specs, fetched>>

\* lines 488-491: the bundles of a finished worker are taken from its future
mfl_config_submit_collect(host_key) ==
    /\ FetchFrame
    /\ host_key \in DOMAIN worker
    /\ worker[host_key].stage = "done"
    /\ ~worker[host_key].collected
    /\ worker' = [worker EXCEPT ![host_key].collected = TRUE]
    /\ LET results == worker[host_key].results
           lids == {results[i].lid : i \in 1..Len(results)}
       IN  fetched' =
             [lid \in DOMAIN fetched \cup lids |->
                 IF lid \in lids
                 THEN results[CHOOSE i \in 1..Len(results) :
                                 /\ results[i].lid = lid
                                 /\ \A j \in 1..Len(results) :
                                       results[j].lid = lid => j <= i]
                 ELSE fetched[lid]]
    /\ UNCHANGED fetch_specs

FetchNext ==
    \/ \E host_key \in Hosts : _worker_request(host_key)
    \/ \E host_key \in Hosts, resp \in Responses : _worker_response(host_key, resp)
    \/ \E host_key \in Hosts : mfl_config_submit_collect(host_key)

(***************************************************************************)
(* Properties of the fetch phase                                           *)
(***************************************************************************)
\* the workers with a request in flight to the host
InFlight(host) ==
    {host_key \in DOMAIN worker :
        /\ worker[host_key].flying
        /\ TargetHost(host_key, worker[host_key].stage) = host}

\* C10 (as claimed): at every moment of the fetch phase at most one request
\* is in flight to any one host, the API host included.
C10_OneRequestPerHost ==
    \A host \in Hosts : Cardinality(InFlight(host)) <= 1

\* C17: whenever the assets response of a league is an error document or
\* lists only franchises without players and picks, and the fetch of the
\* league went through, the rosters and futureDraftPicks fallback was
\* requested exactly once and the merged fallback is the assets to sync.
C17_FallbackOnErrorOrEmptyAssets ==
    \A lid \in DOMAIN fetched :
        (fetched[lid].errors = 0 /\ fetched[lid].assets_seen \in {"blocked", "error", "empty"})
            => (fetched[lid].fallbacks = 1 /\ fetched[lid].assets = "fallback")

(***************************************************************************)
(* live/routes.py: _refresh_all_live.  One worker per league in a thread   *)
(* pool; host_locks is a defaultdict whose factory is a Python lambda, so  *)
(* a lookup that misses runs the factory, where threads can switch, and    *)
(* only then stores the new semaphore under the key.                       *)
(***************************************************************************)
MaxLiveLeagues == 2

\* line 401: min(8, max(2, len(unique_hosts)))
max_workers ==
    LET n == Cardinality({league_infos[i].host : i \in 1..Len(league_infos)})
        m == IF n > 2 THEN n ELSE 2
    IN  IF m < 8 THEN m ELSE 8

LiveRunning == {i \in DOMAIN liveW : liveW[i].pc \notin {"queued", "done"}}

LiveInit ==
    /\ \E k \in 1..MaxLiveLeagues :
          league_infos \in [1..k -> [host : Hosts, my_fid : {None, <<"0", "0", "0", "1">>}]]
    /\ host_locks = << >>
    /\ liveW = [i \in 1..Len(league_infos) |-> [pc |-> "queued", lock |-> 0]]
    /\ semHeld = {}
    /\ semMade = 0

\* lines 420-431: a pool thread takes the worker; host_locks[host] is looked up
worker_lookup_lock(i) ==
    /\ LiveFrame
    /\ i \in DOMAIN liveW
    /\ liveW[i].pc = "queued"
    /\ Cardinality(LiveRunning) < max_workers
    /\ LET host == league_infos[i].host
       IN  liveW' = [liveW EXCEPT ![i] =
             IF league_infos[i].my_fid = None THEN [pc |-> "done", lock |-> 0]
             ELSE IF host \in DOMAIN host_locks
                  THEN [pc |-> "acquire", lock |-> host_locks[host]]
                  ELSE [pc |-> "factory", lock |-> 0]]
    /\ UNCHANGED <<league_infos, host_locks, semHeld, semMade>>

\* line 399: the factory returns a new Semaphore(1); __missing__ stores it
\* under the key, over whatever is there, and hands it to the caller
worker_lock_missing(i) ==
    /\ LiveFrame
    /\ i \in DOMAIN liveW
    /\ liveW[i].pc = "factory"
    /\ semMade' = semMade + 1
    /\ host_locks' = [h \in DOMAIN host_locks \cup {league_infos[i].host} |->
                         IF h = league_infos[i].host THEN semMade + 1 ELSE host_locks[h]]
    /\ liveW' = [liveW EXCEPT ![i] = [pc |-> "acquire", lock |-> semMade + 1]]
    /\ UNCHANGED <<league_infos, semHeld>>

\* line 431: with host_locks[host] -- acquire; lines 433-434: the request starts
worker_acquire(i) ==
    /\ LiveFrame
    /\ i \in DOMAIN liveW
    /\ liveW[i].pc = "acquire"
    /\ liveW[i].lock \notin semHeld
    /\ semHeld' = semHeld \cup {liveW[i].lock}
    /\ liveW' = [liveW EXCEPT ![i].pc = "flying"]
    /\ UNCHANGED <<league_infos, host_locks, semMade>>

\* lines 434-438: the request returns or raises; the semaphore is released
worker_fetched(i) ==
    /\ LiveFrame
    /\ i \in DOMAIN liveW
    /\ liveW[i].pc = "flying"
    /\ semHeld' = semHeld \ {liveW[i].lock}
    /\ liveW' = [liveW EXCEPT ![i].pc = "done"]
    /\ UNCHANGED <<league_infos, host_locks, semMade>>

LiveNext ==
    \/ \E i \in 1..MaxLiveLeagues : worker_lookup_lock(i)
    \/ \E i \in 1..MaxLiveLeagues : worker_lock_missing(i)
    \/ \E i \in 1..MaxLiveLeagues : worker_acquire(i)
    \/ \E i \in 1..MaxLiveLeagues : worker_fetched(i)

\* C11 (as claimed): during a live refresh the workers of one host all get
\* the same semaphore, and no two of them have a request in flight to that
\* host at the same time.
C11_OneLiveRequestPerHost ==
    \A i, j \in DOMAIN liveW :
        (i # j /\ league_infos[i].host = league_infos[j].host) =>
            /\ (liveW[i].lock # 0 /\ liveW[j].lock # 0) => liveW[i].lock = liveW[j].lock
            /\ ~(liveW[i].pc = "flying" /\ liveW[j].pc = "flying")

(***************************************************************************)
(* The three handlers that fetch with a thread pool, from the precompute   *)
(* on the main thread to the work after the pool: mfl/routes.py            *)
(* mfl_config_submit (406-544), live/routes.py _refresh_all_live (356-553) *)
(* and lineups/routes.py lineups_review (281-341).  dbLog records every    *)
(* database statement with the thread that ran it and the moment.          *)
(***************************************************************************)
MaxJobs == 3

Handlers == {"mfl_config_submit", "_refresh_all_live", "lineups_review"}

\* Mutant: _net_fetch reloads its League row inside the thread.
DbStatements_lazy_load(kind, part) ==
    IF kind = "lineups_review" /\ part = "worker"
    THEN {[op |-> "read", stmt |-> "League (lazy load)"]}
    ELSE {}

\* the database statements of each part of a handler: "pre" is the main
\* thread before the pool, "worker" the function run in the pool, "post"
\* the main thread after the pool
DbStatements(kind, part) ==
    CASE kind = "mfl_config_submit" /\ part = "post" ->
           {[op |-> "write", stmt |-> "League.league_host, commit"],
            [op |-> "write", stmt |-> "sync_league_info"],
            [op |-> "write", stmt |-> "sync_league_assets"],
            [op |-> "write", stmt |-> "sync_league_standings"],
            [op |-> "write", stmt |-> "League.synced_at, commit"]}
      [] kind = "_refresh_all_live" /\ part = "pre" ->
           {[op |-> "read", stmt |-> "League query"],
            [op |-> "read", stmt |-> "_team_names_map"]}
      [] kind = "_refresh_all_live" /\ part = "post" ->
           {[op |-> "read", stmt |-> "_player_lookup"]}
      [] kind = "lineups_review" /\ part = "pre" ->
           {[op |-> "read", stmt |-> "build_players_for_review"],
            [op |-> "read", stmt |-> "Team query"]}
      [] OTHER -> {}

\* the moment of a statement, from the state of the pool
Moment ==
    IF \E j \in DOMAIN hJobs : hJobs[j] = "running" THEN "during"
    ELSE IF hPhase = "pre" THEN "before"
    ELSE IF \A j \in DOMAIN hJobs : hJobs[j] \in {"ok", "failed"} THEN "after"
    ELSE "during"

Logged(by, kind, part) ==
    dbLog \cup {[by |-> by, op |-> st.op, stmt |-> st.stmt, when |-> Moment] :
                    st \in DbStatements(kind, part)}

HandlerInit ==
    /\ hKind \in Handlers
    /\ hPhase = "pre"
    /\ \E k \in 1..MaxJobs : hJobs = [j \in 1..k |-> "queued"]
    /\ dbLog = {}

\* the main thread gathers what the workers need and opens the pool
handler_precompute ==
    /\ HandlerFrame
    /\ hPhase = "pre"
    /\ dbLog' = Logged("main", hKind, "pre")
    /\ hPhase' = "pool"
    /\ UNCHANGED <<hKind, hJobs>>

\* a pool thread starts the worker function on a job
handler_worker_runs(j) ==
    /\ HandlerFrame
    /\ hPhase = "pool"
    /\ j \in DOMAIN hJobs
    /\ hJobs[j] = "queued"
    /\ hJobs' = [hJobs EXCEPT ![j] = "running"]
    /\ dbLog' = dbLog \cup
                   {[by |-> "worker", op |-> st.op, stmt |-> st.stmt, when |-> "during"] :
                       st \in DbStatements(hKind, "worker")}
    /\ UNCHANGED <<hKind, hPhase>>

\* the worker function returns or raises
handler_worker_returns(j, res) ==
    /\ HandlerFrame
    /\ j \in DOMAIN hJobs
    /\ hJobs[j] = "running"
    /\ hJobs' = [hJobs EXCEPT ![j] = res]
    /\ UNCHANGED <<hKind, hPhase, dbLog>>

\* the with-block of the executor is left: every worker has returned;
\* the main thread does the rest
handler_after_pool ==
    /\ HandlerFrame
    /\ hPhase = "pool"
    /\ \A j \in DOMAIN hJobs : hJobs[j] \in {"ok", "failed"}
    /\ dbLog' = Logged("main", hKind, "post")
    /\ hPhase' = "done"
    /\ UNCHANGED <<hKind, hJobs>>

HandlerNext ==
    \/ handler_precompute
    \/ \E j \in 1..MaxJobs : handler_worker_runs(j)
    \/ \E j \in 1..MaxJobs, res \in {"ok", "failed"} : handler_worker_returns(j, res)
    \/ handler_after_pool

Open(tag) == [k |-> "open", v |-> tag]

Close(tag) == [k |-> "close", v |-> tag]

Text(chars) == [k |-> "text", v |-> chars]

ParseError == [wellformed |-> FALSE, els |-> << >>]

\* str.strip() of a body: whitespace goes from both ends of the text
BodyLStrip(b) ==
    IF Len(b) > 0 /\ b[1].k = "text"
    THEN IF LStrip(b[1].v) = << >> THEN Tail(b)
         ELSE <<Text(LStrip(b[1].v))>> \o Tail(b)
    ELSE b

BodyRStrip(b) ==
    IF Len(b) > 0 /\ b[Len(b)].k = "text"
    THEN IF RStrip(b[Len(b)].v) = << >> THEN SubSeq(b, 1, Len(b) - 1)
         ELSE SubSeq(b, 1, Len(b) - 1) \o <<Text(RStrip(b[Len(b)].v))>>
    ELSE b

BodyStrip(b) == BodyRStrip(BodyLStrip(b))

\* ElementTree.fromstring: the elements in document order, each with its
\* tag, its text (the character data before its first child) and its
\* depth; ParseError when the text is not one well-formed element
RECURSIVE ET_scan(_, _, _, _)
ET_scan(toks, k, stack, els) ==
    IF k > Len(toks)
    THEN IF stack = << >> /\ Len(els) > 0
         THEN [wellformed |-> TRUE, els |-> els] ELSE ParseError
    ELSE LET tok == toks[k] IN
         CASE tok.k = "open" ->
                IF stack = << >> /\ Len(els) > 0 THEN ParseError
                ELSE LET marked == IF stack = << >> THEN els
                                   ELSE [els EXCEPT ![stack[Len(stack)]].child = TRUE]
                     IN ET_scan(toks, k + 1, Append(stack, Len(els) + 1),
                                Append(marked, [tag |-> tok.v, text |-> << >>,
                                                depth |-> Len(stack), child |-> FALSE]))
           [] tok.k = "close" ->
                IF stack = << >> \/ els[stack[Len(stack)]].tag # tok.v THEN ParseError
                ELSE ET_scan(toks, k + 1, SubSeq(stack, 1, Len(stack) - 1), els)
           [] OTHER ->
                IF stack = << >>
                THEN IF Strip(tok.v) = << >> THEN ET_scan(toks, k + 1, stack, els)
                     ELSE ParseError
                ELSE LET top == stack[Len(stack)] IN
                     IF els[top].child THEN ET_scan(toks, k + 1, stack, els)
                     ELSE ET_scan(toks, k + 1, stack,
                                  [els EXCEPT ![top].text = @ \o tok.v])

ET_fromstring(toks) == ET_scan(toks, 1, << >>, << >>)

\* root.find(".//tag"): the first descendant with that tag, 0 for None
ET_find(els, tag) ==
    IF \E i \in 2..Len(els) : els[i].tag = tag
    THEN CHOOSE i \in 2..Len(els) :
             /\ els[i].tag = tag
             /\ \A j \in 2..(i - 1) : els[j].tag # tag
    ELSE 0

UpperChar(c) ==
    IF \E i \in 1..Len(LowerLetters) : LowerLetters[i] = c
    THEN Upper[CHOOSE i \in 1..Len(LowerLetters) : LowerLetters[i] = c]
    ELSE c

\* str.upper()
PyUpper(s) == [i \in 1..Len(s) |-> UpperChar(s[i])]

\* the text of a body as one string, for the plain-text message
RECURSIVE BodyText(_)
BodyText(b) ==
    IF b = << >> THEN << >>
    ELSE (CASE b[1].k = "open" -> <<"<">> \o b[1].v \o <<">">>
            [] b[1].k = "close" -> <<"<", "/">> \o b[1].v \o <<">">>
            [] OTHER -> b[1].v) \o BodyText(Tail(b))

\* (ok, msg) of an import response body
parse_mfl_import_response(body) ==
    LET stripped == BodyStrip(body)
        tree == IF stripped = << >> THEN ParseError ELSE ET_fromstring(stripped)
        root == tree.els
        parsed ==
            IF ~tree.wellformed THEN [ok |-> FALSE, msg |-> << >>]
            ELSE IF Lower(root[1].tag) = <<"s","t","a","t","u","s">>
            THEN LET msg == Strip(root[1].text)
                 IN [ok |-> PyUpper(msg) = <<"O","K">>, msg |-> msg]
            ELSE LET st_el == ET_find(root, <<"s","t","a","t","u","s">>)
                     err_el == ET_find(root, <<"e","r","r","o","r">>)
                 IN IF st_el # 0
                    THEN LET msg == Strip(root[st_el].text)
                         IN [ok |-> PyUpper(msg) = <<"O","K">>, msg |-> msg]
                    ELSE IF err_el # 0
                    THEN [ok |-> FALSE, msg |-> Strip(root[err_el].text)]
                    ELSE [ok |-> FALSE, msg |-> << >>]
    IN [ok |-> parsed.ok,
        msg |-> IF parsed.msg = << >> /\ stripped # << >>
                THEN BodyText(stripped) ELSE parsed.msg]

(***************************************************************************)
(* The send loop of perform_offers (offers/routes_confirm.py 463-531),     *)
(* entered once consume_mass_offer has allowed the batch.                  *)
(***************************************************************************)
MaxItems == 2

T_status == <<"s","t","a","t","u","s">>

T_error == <<"e","r","r","o","r">>

T_OK == <<"O","K">>

Leaf(tag, chars) ==
    IF chars = << >> THEN <<Open(tag), Close(tag)>>
    ELSE <<Open(tag), Text(chars), Close(tag)>>

\* the bodies the remote host can answer with: empty, plain text, one
\* element, a document of two elements, an error wrapping a status, and
\* text that is not well-formed
Bodies ==
    {<< >>, <<Text(<<" ">>)>>, <<Text(T_OK)>>}
    \cup {Leaf(tag, chars) :
            tag \in {T_status, PyUpper(T_status), T_error},
            chars \in {<< >>, T_OK, <<" ","o","k"," ">>, <<"N","o">>}}
    \cup {<<Open(<<"r">>)>> \o Leaf(t1, c1) \o Leaf(t2, c2) \o <<Close(<<"r">>)>> :
            t1 \in {T_status, T_error}, t2 \in {T_status, T_error},
            c1 \in {T_OK, <<"N","o">>}, c2 \in {T_OK, <<"N","o">>}}
    \cup {<<Open(T_error)>> \o Leaf(T_status, T_OK) \o <<Close(T_error)>>}
    \cup {<<Open(T_status), Text(T_OK)>>,
          <<Open(T_status), Text(T_OK), Close(T_error)>>,
          Leaf(T_status, T_OK) \o Leaf(T_status, T_OK)}

\* what requests.get does: raise, or answer with a status code and a body
SendResponses ==
    {[raised |-> TRUE, status_code |-> 0, body |-> << >>]}
    \cup [raised : {FALSE}, status_code : {200, 404}, body : Bodies]

\* League rows of the current user, and the assets on the roster of the
\* user's franchise in each
UserLeagues == {"11111"}

Owned(lid) == IF lid = "11111" THEN {"13593", "FP_0001_2026_1"} ELSE {}

\* the elements of pending_json: objects as the confirm page writes them,
\* for the user's league or another, giving up an asset of the user's or of
\* somebody else; or a JSON value that is not an object
ItemInputs ==
    {[object |-> FALSE, league_id |-> "", will_give_up |-> << >>]}
    \cup [object : {TRUE}, league_id : {"11111", "22222"},
          will_give_up : {<<"13593">>, <<"13593", "9999">>}]

NoResp == [idx |-> 0, raised |-> FALSE, status_code |-> 0, body |-> << >>]

SendInit ==
    /\ \E n \in 1..MaxItems : items \in [1..n -> ItemInputs]
    /\ sendIdx = 1
    /\ offers_log = << >>
    /\ sent = [i \in DOMAIN items |-> 0]
    /\ sendPc = "loop"
    /\ lastResp = NoResp

\* Mutant: an item that ended in an error is tried again.
NextItem_retry_errors(i, status) == IF status = "error" THEN i ELSE i + 1

\* the for loop goes on to the next item, whatever the status of this one
NextItem(i, status) == i + 1

\* ok of send_trade_proposal
http_ok(status_code) == 200 <= status_code /\ status_code < 300

\* status of an item from the response to its request
status_of(resp) ==
    IF resp.raised THEN "error"
    ELSE IF http_ok(resp.status_code) /\ parse_mfl_import_response(resp.body).ok
    THEN "ok" ELSE "error"

\* it.get on a value that is not an object: AttributeError leaves the view
offers_item_not_object ==
    /\ SendFrame
    /\ sendPc = "loop"
    /\ sendIdx <= Len(items)
    /\ ~items[sendIdx].object
    /\ sendPc' = "raised"
    /\ UNCHANGED <<items, sendIdx, offers_log, sent, lastResp>>

\* no League row of the current user with that id
offers_item_unknown_league ==
    /\ SendFrame
    /\ sendPc = "loop"
    /\ sendIdx <= Len(items)
    /\ items[sendIdx].object
    /\ items[sendIdx].league_id \notin UserLeagues
    /\ offers_log' = Append(offers_log, [item |-> sendIdx, mfl_id |-> items[sendIdx].league_id,
                                         status |-> "error"])
    /\ sendIdx' = sendIdx + 1
    /\ UNCHANGED <<items, sent, sendPc, lastResp>>

\* send_trade_proposal for the item, its response classified and logged
offers_item_send(resp) ==
    /\ SendFrame
    /\ sendPc = "loop"
    /\ sendIdx <= Len(items)
    /\ items[sendIdx].object
    /\ items[sendIdx].league_id \in UserLeagues
    /\ sent' = [sent EXCEPT ![sendIdx] = @ + 1]
    /\ lastResp' = [idx |-> Len(offers_log) + 1, raised |-> resp.raised,
                    status_code |-> resp.status_code, body |-> resp.body]
    /\ offers_log' = Append(offers_log, [item |-> sendIdx, mfl_id |-> items[sendIdx].league_id,
                                         status |-> status_of(resp)])
    /\ sendIdx' = NextItem(sendIdx, status_of(resp))
    /\ UNCHANGED <<items, sendPc>>

\* the loop is over: send_result.html is rendered with the log
offers_render_log ==
    /\ SendFrame
    /\ sendPc = "loop"
    /\ sendIdx > Len(items)
    /\ sendPc' = "rendered"
    /\ UNCHANGED <<items, sendIdx, offers_log, sent, lastResp>>

SendNext ==
    \/ offers_item_not_object
    \/ offers_item_unknown_league
    \/ \E resp \in SendResponses : offers_item_send(resp)
    \/ offers_render_log

\* C13: an allowed perform_offers call with N items ends with a result log
\* of exactly N entries, entry i about item i, whatever happened to any item.
C13_OneLogEntryPerItem ==
    sendPc # "loop" =>
        /\ sendPc = "rendered"
        /\ Len(offers_log) = Len(items)
        /\ \A i \in DOMAIN offers_log :
              offers_log[i].item = i /\ offers_log[i].mfl_id = items[i].league_id

\* C14: within one send action at most one trade-proposal request is made
\* for an offer, whether its request raised, was rejected or succeeded.
C14_AtMostOneRequestPerOffer == \A i \in DOMAIN sent : sent[i] <= 1

C14_Witness ==
    /\ sendPc = "rendered"
    /\ Len(items) = 2
    /\ sent[1] = 1 /\ offers_log[1].status = "error"
    /\ sent[2] = 1 /\ lastResp.raised

\* the elements of a body, when it is XML
ElementsOf(body) == ET_fromstring(BodyStrip(body)).els

IsXml(body) == BodyStrip(body) # << >> /\ ET_fromstring(BodyStrip(body)).wellformed

\* C15: an offer is reported successful exactly when the response has a 2xx
\* status and its body is XML with a status element whose text is OK; a
\* body that is not XML, an error element or another status is a failure.
C15_SuccessIffStatusOk ==
    lastResp.idx > 0 /\ ~lastResp.raised =>
        LET els == ElementsOf(lastResp.body)
            two_xx == lastResp.status_code \in 200..299
            has_ok == /\ IsXml(lastResp.body)
                      /\ \E i \in DOMAIN els :
                            /\ Lower(els[i].tag) = T_status
                            /\ PyUpper(Strip(els[i].text)) = T_OK
            has_error == /\ IsXml(lastResp.body)
                         /\ \E i \in DOMAIN els : els[i].tag = T_error
            reported == offers_log[lastResp.idx].status
        IN /\ reported = "ok" <=> (two_xx /\ has_ok)
           /\ (~IsXml(lastResp.body) \/ has_error \/ ~two_xx) => reported = "error"

\* C16: a trade-proposal request is made for an item only if its league is
\* the current user's and every asset it gives up is on the roster of the
\* user's franchise in that league.
C16_SendsOnlyOwnedAssets ==
    \A i \in DOMAIN sent :
        sent[i] > 0 =>
            /\ items[i].league_id \in UserLeagues
            /\ \A k \in DOMAIN items[i].will_give_up :
                  items[i].will_give_up[k] \in Owned(items[i].league_id)

(***************************************************************************)
(* Pending trades: parse_pending_trades of services/mfl_parsers.py (used   *)
(* by mfl/routes.py:622) and of services/mfl_trades_parsers.py (used by    *)
(* services/trades_service.py:136).                                        *)
(***************************************************************************)
MaxTrades == 2

\* the status attribute of a trade element; None when it has none
TradeStatuses ==
    {None, <<"p","e","n","d","i","n","g">>, <<"A","c","c","e","p","t","e","d">>,
     <<"c","a","n","c","e","l","l","e","d">>}

\* a trade element of the export: its tag and the attributes the parsers read
TradeNodes ==
    [tag : {"trade", "pendingTrade"}, status : TradeStatuses,
     trade_id : {<< >>, <<"1","7">>}, offeringteam : {<<"8">>}, offeredto : {<<"1">>}]

TradePayloads ==
    {[error |-> TRUE, nodes |-> << >>]}
    \cup {[error |-> FALSE, nodes |-> nodes] :
            nodes \in UNION {[1..n -> TradeNodes] : n \in 1..MaxTrades}}

\* root.findall(".//tag"): the positions of the elements with that tag
RECURSIVE FindAll(_, _, _)
FindAll(nodes, tag, i) ==
    IF i > Len(nodes) THEN << >>
    ELSE (IF nodes[i].tag = tag THEN <<i>> ELSE << >>) \o FindAll(nodes, tag, i + 1)

\* mfl_parsers.py:388: the statuses that are left out
SkippedStatuses ==
    {<<"c","o","m","p","l","e","t","e","d">>, <<"a","c","c","e","p","t","e","d">>,
     <<"p","r","o","c","e","s","s","e","d">>, <<"r","e","j","e","c","t","e","d">>,
     <<"d","e","c","l","i","n","e","d">>, <<"c","a","n","c","e","l","l","e","d">>,
     <<"c","a","n","c","e","l","e","d">>}

\* services/mfl_parsers.py: every trade and pendingTrade element whose
\* lowered status is not a skipped one
mfl_parsers_parse_pending_trades(xml) ==
    LET trade_nodes == FindAll(xml.nodes, "trade", 1) \o FindAll(xml.nodes, "pendingTrade", 1)
        status(i) == Lower(IF xml.nodes[i].status \in {None, << >>}
                           THEN <<"p","e","n","d","i","n","g">> ELSE xml.nodes[i].status)
        kept == SelectSeq(trade_nodes, LAMBDA i : status(i) \notin SkippedStatuses)
    IN [k \in 1..Len(kept) |->
           [src |-> kept[k], trade_id |-> xml.nodes[kept[k]].trade_id,
            offeringteam |-> _fid(xml.nodes[kept[k]].offeringteam),
            offeredto |-> _fid(xml.nodes[kept[k]].offeredto)]]

\* services/mfl_trades_parsers.py: nothing for an error document, else
\* every pendingTrade element with a trade id and both franchises
mfl_trades_parsers_parse_pending_trades(xml) ==
    IF xml.error THEN << >>
    ELSE LET kept == SelectSeq(FindAll(xml.nodes, "pendingTrade", 1),
                               LAMBDA i : /\ Strip(xml.nodes[i].trade_id) # << >>
                                          /\ _fid(xml.nodes[i].offeringteam) # << >>
                                          /\ _fid(xml.nodes[i].offeredto) # << >>)
         IN [k \in 1..Len(kept) |->
                [src |-> kept[k], trade_id |-> Strip(xml.nodes[kept[k]].trade_id),
                 offeringteam |-> _fid(xml.nodes[kept[k]].offeringteam),
                 offeredto |-> _fid(xml.nodes[kept[k]].offeredto)]]

TradesInit ==
    /\ trades_xml \in TradePayloads
    /\ trades_by = "none"
    /\ trades_out = << >>

\* mfl/routes.py:622
mfl_routes_parse_trades ==
    /\ TradesFrame
    /\ trades_by = "none"
    /\ trades_by' = "mfl_parsers"
    /\ trades_out' = mfl_parsers_parse_pending_trades(trades_xml)
    /\ UNCHANGED trades_xml

\* services/trades_service.py:136
trades_service_parse_trades ==
    /\ TradesFrame
    /\ trades_by = "none"
    /\ trades_by' = "mfl_trades_parsers"
    /\ trades_out' = mfl_trades_parsers_parse_pending_trades(trades_xml)
    /\ UNCHANGED trades_xml

TradesNext ==
    \/ mfl_routes_parse_trades
    \/ trades_service_parse_trades

\* C18: whatever the payload, no trade whose status is completed, accepted,
\* processed, rejected, declined or cancelled is among the parsed rows.
C18_OnlyPendingTradesParsed ==
    \A k \in DOMAIN trades_out :
        Lower(trades_xml.nodes[trades_out[k].src].status) \notin
            {<<"c","o","m","p","l","e","t","e","d">>, <<"a","c","c","e","p","t","e","d">>,
             <<"p","r","o","c","e","s","s","e","d">>, <<"r","e","j","e","c","t","e","d">>,
             <<"d","e","c","l","i","n","e","d">>, <<"c","a","n","c","e","l","l","e","d">>}

(***************************************************************************)
(* One export call: MFLClient._export (services/mfl_client.py 179-230)     *)
(* and _export / _get_with_retry of services/trades_service.py (46-77).    *)
(* Waits are in hundredths of a second.                                    *)
(***************************************************************************)
RETRY_STATUSES == {429, 500, 502, 503, 504}

retries == 3

backoff_base == 75

\* the status codes a response can carry
StatusCodes == {200, 401, 403, 404} \cup RETRY_STATUSES

\* resp.text of a failed request: empty or not
ErrorTexts == {"", "Internal error"}

RECURSIVE Pow2(_)
Pow2(n) == IF n = 0 THEN 1 ELSE 2 * Pow2(n - 1)

Running == [kind |-> "running", cls |-> "", msg |-> "", code |-> 0, text |-> ""]

ReturnedBody == [kind |-> "returned", cls |-> "", msg |-> "", code |-> 0, text |-> ""]

Raised(cls, msg, code, text) ==
    [kind |-> "raised", cls |-> cls, msg |-> msg, code |-> code, text |-> text]

\* requests.get raised: timeout, DNS, connection reset
TransportError == Raised("RequestException", "", 0, "")

\* resp.raise_for_status(): HTTPError for 400..599
HTTPError(code) == Raised("HTTPError", "", code, "")

AuthExpired ==
    Raised("RuntimeError",
           "MFL auth failed or session expired. Please re-link your MFL account.", 0, "")

\* Mutant: 401 and 403 are reported like every other failed request.
_raise_for_status_generic(code, text) ==
    IF code < 400 THEN ReturnedBody
    ELSE IF text # "" THEN Raised("RuntimeError", "MFL request failed", code, text)
    ELSE HTTPError(code)

\* MFLClient._raise_for_status; the body is returned when nothing is raised
_raise_for_status(code, text) ==
    IF code < 400 THEN ReturnedBody
    ELSE IF code \in {401, 403} THEN AuthExpired
    ELSE IF text # "" THEN Raised("RuntimeError", "MFL request failed", code, text)
    ELSE HTTPError(code)

\* Mutant: one more retry than the code allows.
should_retry_once_more(client, code, attempt) ==
    code \in RETRY_STATUSES /\ attempt <= retries + 1

\* mfl_client.py:219 and trades_service.py:52: retry after this response?
should_retry(client, code, attempt) ==
    /\ code \in RETRY_STATUSES
    /\ IF client = "mfl_client" THEN attempt <= retries ELSE attempt < 4

\* mfl_client.py:221: backoff_base * 2 ** (attempt - 1); trades_service.py
\* 48-58: backoff starts at 0.75 and doubles after every wait
backoff(client, attempt) == backoff_base * Pow2(attempt - 1)

ExportInit ==
    /\ exClient \in {"mfl_client", "trades_service"}
    /\ exHistory = << >>
    /\ exSlept = << >>
    /\ exOutcome = Running

\* requests.get raises: the exception leaves the export call
export_transport_error ==
    /\ ExportFrame
    /\ exOutcome = Running
    /\ exHistory' = Append(exHistory, 0)
    /\ exOutcome' = TransportError
    /\ UNCHANGED <<exClient, exSlept>>

\* a response with a transient status while retries are left: sleep, again
export_retry(code) ==
    /\ ExportFrame
    /\ exOutcome = Running
    /\ should_retry(exClient, code, Len(exHistory) + 1)
    /\ exHistory' = Append(exHistory, code)
    /\ exSlept' = Append(exSlept, backoff(exClient, Len(exHistory) + 1))
    /\ UNCHANGED <<exClient, exOutcome>>

\* any other response ends the call: the body, or the error of its status
export_finish(code, text) ==
    /\ ExportFrame
    /\ exOutcome = Running
    /\ ~should_retry(exClient, code, Len(exHistory) + 1)
    /\ code < 400 => text = ""
    /\ exHistory' = Append(exHistory, code)
    /\ exOutcome' = IF exClient = "mfl_client" THEN _raise_for_status(code, text)
                    ELSE IF code < 400 THEN ReturnedBody ELSE HTTPError(code)
    /\ UNCHANGED <<exClient, exSlept>>

ExportNext ==
    \/ export_transport_error
    \/ \E code \in StatusCodes : export_retry(code)
    \/ \E code \in StatusCodes, text \in ErrorTexts : export_finish(code, text)

\* C19: an export call makes at most 4 attempts, goes on only after a 429,
\* 500, 502, 503 or 504, waits 0.75 s * 2^(k-1) before its k-th retry, and
\* ends by returning the body or raising.
C19_BoundedRetriesThenOutcome ==
    /\ [](/\ Len(exHistory) <= 4
          /\ \A i \in 1..(Len(exHistory) - 1) : exHistory[i] \in RETRY_STATUSES
          /\ Len(exSlept) <= 3
          /\ \A k \in DOMAIN exSlept : exSlept[k] = 75 * Pow2(k - 1)
          /\ exOutcome.kind \in {"returned", "raised"} =>
                Len(exSlept) = Len(exHistory) - 1)
    /\ <>(exOutcome.kind \in {"returned", "raised"})

C19_Witness ==
    /\ exOutcome.kind = "raised"
    /\ Len(exHistory) = 4
    /\ exHistory[4] \in RETRY_STATUSES
    /\ exSlept = <<75, 150, 300>>

C21_TransportErrorRetried ==
    exOutcome = TransportError =>
        (Len(exHistory) = retries + 1 /\ Len(exSlept) = retries)

(***************************************************************************)
(* The rate limiter: RateLimiter.wait (services/mfl_client.py 24-35) on    *)
(* the module-level _rl that every _export of the process calls first.     *)
(* The limit and the window are scaled down; time is in whole seconds.     *)
(***************************************************************************)
RATE_MAX_CALLS == 2

RATE_WINDOW_SEC == 2

MaxClock == 3

MaxWaits == 2

\* [t for t in self._calls if now - t < self.window]
RecentCalls(calls, now) == SelectSeq(calls, LAMBDA t : now - t < RATE_WINDOW_SEC)

LimiterInit ==
    /\ rlCalls = << >>
    /\ rlClock = 0
    /\ rlThread = [t \in Threads |->
                      [pc |-> "idle", now |-> 0, kept |-> << >>, wake |-> 0, left |-> MaxWaits]]
    /\ rlPassed = << >>

\* the clock moves on
limiter_tick ==
    /\ LimiterFrame
    /\ rlClock < MaxClock
    /\ rlClock' = rlClock + 1
    /\ UNCHANGED <<rlCalls, rlThread, rlPassed>>

\* line 30-31: now = time.time(); the list of recent calls is built
wait_filter(t) ==
    /\ LimiterFrame
    /\ t \in DOMAIN rlThread
    /\ rlThread[t].pc = "idle"
    /\ rlThread[t].left > 0
    /\ rlThread' = [rlThread EXCEPT ![t].pc = "store", ![t].now = rlClock,
                                    ![t].kept = RecentCalls(rlCalls, rlClock),
                                    ![t].left = @ - 1]
    /\ UNCHANGED <<rlCalls, rlClock, rlPassed>>

\* lines 31-35: the list is stored in self._calls and its length tested
wait_store_check(t) ==
    /\ LimiterFrame
    /\ t \in DOMAIN rlThread
    /\ rlThread[t].pc = "store"
    /\ rlCalls' = rlThread[t].kept
    /\ LET calls == rlThread[t].kept
           sleep_for == RATE_WINDOW_SEC - (rlThread[t].now - calls[1])
       IN  IF Len(calls) >= RATE_MAX_CALLS /\ sleep_for > 0
           THEN rlThread' = [rlThread EXCEPT ![t].pc = "sleep",
                                             ![t].wake = rlClock + sleep_for]
           ELSE rlThread' = [rlThread EXCEPT ![t].pc = "append"]
    /\ UNCHANGED <<rlClock, rlPassed>>

\* line 35: time.sleep(sleep_for) is over
wait_wake(t) ==
    /\ LimiterFrame
    /\ t \in DOMAIN rlThread
    /\ rlThread[t].pc = "sleep"
    /\ rlClock >= rlThread[t].wake
    /\ rlThread' = [rlThread EXCEPT ![t].pc = "append"]
    /\ UNCHANGED <<rlCalls, rlClock, rlPassed>>

\* line 36: self._calls.append(time.time()); the call goes on to its request
wait_append(t) ==
    /\ LimiterFrame
    /\ t \in DOMAIN rlThread
    /\ rlThread[t].pc = "append"
    /\ rlCalls' = Append(rlCalls, rlClock)
    /\ rlPassed' = Append(rlPassed, rlClock)
    /\ rlThread' = [rlThread EXCEPT ![t].pc = "idle"]
    /\ UNCHANGED rlClock

LimiterNext ==
    \/ limiter_tick
    \/ \E t \in Threads : wait_filter(t)
    \/ \E t \in Threads : wait_store_check(t)
    \/ \E t \in Threads : wait_wake(t)
    \/ \E t \in Threads : wait_append(t)

\* C22: counting the calls of all threads together, no more than
\* RATE_MAX_CALLS calls pass the limiter in any window of RATE_WINDOW_SEC.
C22_LimitHoldsAcrossThreads ==
    \A t0 \in 0..MaxClock :
        Cardinality({i \in DOMAIN rlPassed :
                        t0 <= rlPassed[i] /\ rlPassed[i] < t0 + RATE_WINDOW_SEC})
            <= RATE_MAX_CALLS

(***************************************************************************)
(* Linking credentials: mfl_login (mfl/routes.py 102-163) and              *)
(* User.set_mfl_cookie_bundle (models.py 82-98).  MFLClient.login returns  *)
(* a cookie or raises.                                                     *)
(***************************************************************************)
\* sorted(hostnames)
SortedHosts == <<"www43.myfantasyleague.com", "www44.myfantasyleague.com">>

\* what the user had stored before: nothing, or the tokens of an earlier link
StoredAccounts ==
    {[mfl_user |-> "", session_key |-> "", mfl_cookie_api |-> "", hosts |-> {}]}
    \cup {[mfl_user |-> "old", session_key |-> "api-old", mfl_cookie_api |-> "api-old",
           hosts |-> {[host |-> h, cookie |-> "host-old"] : h \in hs}] :
             hs \in SUBSET LeagueHosts}

LoginInit ==
    /\ acct \in StoredAccounts
    /\ acctBefore = acct
    /\ loginPc = "api"
    /\ hostnames = {}
    /\ hostIdx = 1
    /\ host_cookie_map = {}
    /\ hostOk = {}

\* Mutant: a host whose login failed is kept with an empty cookie.
after_host_login_keep_failed(map, host, raised) ==
    map \cup {[host |-> host, cookie |-> IF raised THEN "" ELSE "host-new"]}

\* lines 137-144: the cookie of a host is kept, a failed login is skipped
after_host_login(map, host, raised) ==
    IF raised THEN map ELSE map \cup {[host |-> host, cookie |-> "host-new"]}

\* lines 112-117: the login on the API host raises; the form is shown again
mfl_login_api_failed ==
    /\ LoginFrame
    /\ loginPc = "api"
    /\ loginPc' = "failed"
    /\ UNCHANGED <<acct, acctBefore, hostnames, hostIdx, host_cookie_map, hostOk>>

\* lines 113-131: the API login gave a cookie; myleagues names the hosts,
\* or the discovery fails and no host is known
mfl_login_discover(found) ==
    /\ LoginFrame
    /\ loginPc = "api"
    /\ hostnames' = found
    /\ loginPc' = "hosts"
    /\ UNCHANGED <<acct, acctBefore, hostIdx, host_cookie_map, hostOk>>

\* lines 135-144: the login on the next league host
mfl_login_host(raised) ==
    /\ LoginFrame
    /\ loginPc = "hosts"
    /\ hostIdx <= Len(SortedHosts)
    /\ LET host == SortedHosts[hostIdx]
       IN  IF host \in hostnames
           THEN /\ host_cookie_map' = after_host_login(host_cookie_map, host, raised)
                /\ hostOk' = IF raised THEN hostOk ELSE hostOk \cup {host}
           ELSE /\ ~raised
                /\ UNCHANGED <<host_cookie_map, hostOk>>
    /\ hostIdx' = hostIdx + 1
    /\ UNCHANGED <<acct, acctBefore, loginPc, hostnames>>

\* lines 147-157: everything is stored on the user and committed
mfl_login_store(username) ==
    /\ LoginFrame
    /\ loginPc = "hosts"
    /\ hostIdx > Len(SortedHosts)
    /\ acct' = [mfl_user |-> username, session_key |-> "api-new",
                mfl_cookie_api |-> "api-new", hosts |-> host_cookie_map]
    /\ loginPc' = "done"
    /\ UNCHANGED <<acctBefore, hostnames, hostIdx, host_cookie_map, hostOk>>

LoginNext ==
    \/ mfl_login_api_failed
    \/ \E found \in SUBSET LeagueHosts : mfl_login_discover(found)
    \/ \E raised \in BOOLEAN : mfl_login_host(raised)
    \/ \E username \in {"old", "new"} : mfl_login_store(username)

\* C23: a failed canonical login stores nothing and leaves the stored
\* tokens as they were; failed host logins never fail the operation, and
\* the stored host map holds exactly the hosts whose login succeeded.
C23_LinkStoresSucceededHostsOnly ==
    /\ loginPc \notin {"done", "parked"} => acct = acctBefore
    /\ loginPc = "hosts" /\ hostIdx > Len(SortedHosts) => ENABLED mfl_login_store("new")
    /\ loginPc = "done" =>
          /\ {e.host : e \in acct.hosts} = hostOk
          /\ \A e \in acct.hosts : e.cookie = "host-new"
          /\ acct.mfl_cookie_api = "api-new"

C23_Witness ==
    /\ loginPc = "done"
    /\ acctBefore.hosts # {}
    /\ hostnames = LeagueHosts
    /\ Cardinality(hostOk) = 1

(***************************************************************************)
(* Franchise ids across components: mfl/routes.py stores the user's        *)
(* franchise of a league with _norm_fid, services/mfl_sync.py stores the   *)
(* franchises of the league with _fid, and offers/routes.py looks the      *)
(* user's team up by str(league.franchise_id).zfill(4).                    *)
(***************************************************************************)
MaxRawIds == 5

\* raw ids as MFL and the form deliver them
RawFids ==
    LET all == << <<"1">>, <<"0", "0", "0", "1">>, <<"1", "2">>,
                  <<"a", "b", "c">>, <<" ", "7">>, <<"7">> >>
    IN  {all[i] : i \in 1..MaxRawIds}

Unset == <<"unset">>

\* mfl/routes.py _norm_fid: None for an empty value, else strip and zfill(4)
_norm_fid(val) ==
    IF val = None THEN None
    ELSE LET s == Strip(val)
         IN  IF s = << >> THEN None ELSE ZFill(s, 4)

FidInit ==
    /\ fidRaw \in [form : RawFids, payload : RawFids]
    /\ league_franchise_id = Unset
    /\ team_mfl_id = Unset
    /\ my_team = "unset"

\* mfl_config_submit, lines 307-312 and 346-360: the posted franchise id is
\* stored on the league
mfl_config_submit_franchise ==
    /\ FidFrame
    /\ league_franchise_id = Unset
    /\ league_franchise_id' = _norm_fid(fidRaw.form)
    /\ UNCHANGED <<fidRaw, team_mfl_id, my_team>>

\* sync_league_info / _ensure_team: the franchise of the payload is stored
sync_store_franchise ==
    /\ FidFrame
    /\ team_mfl_id = Unset
    /\ team_mfl_id' = _fid(fidRaw.payload)
    /\ UNCHANGED <<fidRaw, league_franchise_id, my_team>>

\* offers/routes.py _get_my_team_in_league
_get_my_team_in_league ==
    /\ FidFrame
    /\ league_franchise_id # Unset /\ team_mfl_id # Unset /\ my_team = "unset"
    /\ my_team' = IF league_franchise_id = None THEN "missing"
                  ELSE IF team_mfl_id = ZFill(league_franchise_id, 4)
                       THEN "found" ELSE "missing"
    /\ UNCHANGED <<fidRaw, league_franchise_id, team_mfl_id>>

FidNext ==
    \/ mfl_config_submit_franchise
    \/ sync_store_franchise
    \/ _get_my_team_in_league

\* the rule of the claim: all digits are padded to four, the rest is kept
PaddedOrKept(x) == IF IsDigit(Strip(x)) THEN ZFill(Strip(x), 4) ELSE x

\* C24: every stored franchise id is the raw id normalized by the one rule
\* (all-digit ids left-padded with zeros to four characters, any other id
\* unchanged), and two raw ids that denote the same franchise compare equal
\* when the offers code looks the user's team up.
C24_OneNormalizationRule ==
    /\ league_franchise_id # Unset =>
           league_franchise_id = PaddedOrKept(fidRaw.form)
    /\ team_mfl_id # Unset => team_mfl_id = PaddedOrKept(fidRaw.payload)
    /\ (my_team \in {"found", "missing"}
        /\ PaddedOrKept(fidRaw.form) = PaddedOrKept(fidRaw.payload))
           => my_team = "found"

(***************************************************************************)
(* Pick tokens FP_<orig>_<season>_<round>: offers/routes_confirm.py builds *)
(* them from DraftPick rows, services/mfl_sync.py, mfl_trades_parsers.py   *)
(* and mfl_parsers.py parse them.                                          *)
(***************************************************************************)
MaxRound == 3

PickSeasons == {2025, 2026, 2027}

\* original_team of a DraftPick row: a normalized franchise id or NULL
PickOrigs ==
    {<<"0", "0", "0", "1">>, <<"0", "0", "0", "2">>, <<"1", "2", "3", "4">>,
     None}

PickRows ==
    [original_team : PickOrigs, season : PickSeasons, round : 1..MaxRound]

NoRow == [original_team |-> None, season |-> 0, round |-> 0]

\* tokens as a league payload can carry them
PayloadTokens ==
    {<<"F","P","_","0","0","0","2","_","2","0","2","6","_","1">>,
     <<"F","P","_","2","_","2","0","2","6","_","1">>,
     <<"F","P","_","0","0","0","2","_","2","0","2","6">>,
     <<"F","P","_","0","0","0","2","_","2","0","2","6","_","1","_","9">>,
     <<"F","P","_","0","0","0","2","_","x","_","1">>,
     <<"F","P","_","0","0","0","2","_","2","0","2","6","_","y">>,
     <<"F","P","_","0","0","0","2","_","2","0","2","6",".","5","_","1">>,
     <<"D","P","_","0","_","1">>}

RECURSIVE IntStr(_)
\* str(n) of a non-negative int
IntStr(n) ==
    LET d == <<"0", "1", "2", "3", "4", "5", "6", "7", "8", "9">>
    IN  IF n < 10 THEN <<d[n + 1]>>
        ELSE IntStr(n \div 10) \o <<d[(n % 10) + 1]>>

\* Mutant: season and round change places in the token.
_draftpick_to_token_swapped(p) ==
    <<"F", "P", "_">>
        \o ZFill(IF p.original_team = None THEN << >> ELSE p.original_team, 4)
        \o <<"_">> \o IntStr(p.round) \o <<"_">> \o IntStr(p.season)

\* f"FP_{(p.original_team or '').zfill(4)}_{int(p.season)}_{int(p.round)}"
_draftpick_to_token(p) ==
    <<"F", "P", "_">>
        \o ZFill(IF p.original_team = None THEN << >> ELSE p.original_team, 4)
        \o <<"_">> \o IntStr(p.season) \o <<"_">> \o IntStr(p.round)

Unparsed == [state |-> "unset", season |-> 0, round |-> 0, orig |-> << >>]
Discarded == [state |-> "discarded", season |-> 0, round |-> 0, orig |-> << >>]
Accepted(season, rnd, orig) ==
    [state |-> "accepted", season |-> season, round |-> rnd, orig |-> orig]

\* _safe_int(x, 0): int(x), else int(float(x)) for the form digits.digits,
\* else the default
_safe_int(x, default) ==
    LET whole == PyInt(x)
        dot == Split(Strip(x), ".")
    IN  IF whole.ok THEN whole.val
        ELSE IF Len(dot) = 2 /\ IsDigit(dot[1]) /\ IsDigit(dot[2])
             THEN DigitsVal(dot[1])
             ELSE default

\* mfl_trades_parsers._parse_pick_token: no strip, else as _parse_pick_code
_parse_pick_token(tok) ==
    LET parts == Split(tok, "_") IN
    IF Len(parts) >= 4
    THEN LET season == PyInt(parts[3])
             rnd == PyInt(parts[4])
         IN  IF season.ok /\ rnd.ok
             THEN <<season.val, rnd.val, _fid(parts[2])>>
             ELSE << >>
    ELSE << >>

\* mfl_parsers.parse_assets, the draftPick branch
parse_assets_pick(pick_str) ==
    LET parts == Split(pick_str, "_") IN
    IF Len(parts) >= 4
    THEN LET season == _safe_int(parts[3], 0)
             rnd == _safe_int(parts[4], 0)
         IN  IF season # 0 /\ rnd # 0
             THEN <<season, rnd, _fid(parts[2])>>
             ELSE << >>
    ELSE << >>

AsOutcome(parsed) ==
    IF parsed = << >> THEN Discarded
    ELSE Accepted(parsed[1], parsed[2], parsed[3])

PickParsers == {"sync", "trades", "assets"}

PickInit ==
    /\ \/ pickRow \in PickRows /\ pickToken = None
       \/ pickRow = NoRow /\ pickToken \in PayloadTokens
    /\ pickParsed = [p \in PickParsers |-> Unparsed]

\* routes_confirm.py: the token of a pick row is put into an offer
offer_pick_token ==
    /\ PickFrame
    /\ pickRow # NoRow /\ pickToken = None
    /\ pickToken' = _draftpick_to_token(pickRow)
    /\ UNCHANGED <<pickRow, pickParsed>>

\* mfl_sync._iter_picks on a string code
sync_parse_pick ==
    /\ PickFrame
    /\ pickToken # None /\ pickParsed["sync"] = Unparsed
    /\ pickParsed' =
           [pickParsed EXCEPT !["sync"] = AsOutcome(_parse_pick_code(pickToken))]
    /\ UNCHANGED <<pickRow, pickToken>>

\* mfl_trades_parsers._parse_assets_csv on one token of the list
trades_parse_pick ==
    /\ PickFrame
    /\ pickToken # None /\ pickParsed["trades"] = Unparsed
    /\ LET tok == Strip(pickToken)
           isPick == Len(tok) >= 3 /\ SubSeq(tok, 1, 3) = <<"F", "P", "_">>
       IN  pickParsed' =
               [pickParsed EXCEPT !["trades"] =
                    IF isPick THEN AsOutcome(_parse_pick_token(tok))
                    ELSE Discarded]
    /\ UNCHANGED <<pickRow, pickToken>>

\* mfl_parsers.parse_assets on one draftPick element
assets_parse_pick ==
    /\ PickFrame
    /\ pickToken # None /\ pickParsed["assets"] = Unparsed
    /\ pickParsed' =
           [pickParsed EXCEPT !["assets"] = AsOutcome(parse_assets_pick(pickToken))]
    /\ UNCHANGED <<pickRow, pickToken>>

PickNext ==
    \/ offer_pick_token
    \/ sync_parse_pick
    \/ trades_parse_pick
    \/ assets_parse_pick

FourDigits(x) == x # None /\ Len(x) = 4 /\ IsDigit(x)

\* C25: for a pick row whose original franchise id has four digits and whose
\* season and round are positive, the token built from the row is decoded by
\* every parser into the same (original franchise, season, round).
C25_PickTokenRoundTrip ==
    (pickRow # NoRow /\ FourDigits(pickRow.original_team)
     /\ pickRow.season > 0 /\ pickRow.round > 0) =>
        \A p \in PickParsers :
            pickParsed[p] # Unparsed =>
                pickParsed[p] = Accepted(pickRow.season, pickRow.round,
                                         pickRow.original_team)

C25_Witness ==
    /\ pickRow # NoRow /\ FourDigits(pickRow.original_team)
    /\ pickRow.round = 2 /\ pickRow.season = 2026
    /\ \A p \in PickParsers : pickParsed[p].state = "accepted"

\* a token of exactly four segments whose season and round are integers
WellFormedToken(tok) ==
    LET parts == Split(tok, "_")
    IN  Len(parts) = 4 /\ PyInt(parts[3]).ok /\ PyInt(parts[4]).ok

\* C26: a parser accepts a token only if it has exactly four
\* underscore-separated segments with integer season and round; any other
\* token is discarded (no parser raises: each outcome is accepted or
\* discarded).
C26_OnlyWellFormedTokensAccepted ==
    \A p \in PickParsers :
        /\ pickParsed[p].state \in {"unset", "accepted", "discarded"}
        /\ (pickToken # None /\ pickParsed[p].state = "accepted")
               => WellFormedToken(pickToken)

(***************************************************************************)
(* One league of the sync loop of mfl_config_submit (mfl/routes.py         *)
(* 519-543): sync_league_info on the franchise meta map, then              *)
(* sync_league_assets on the parsed assets.                                *)
(***************************************************************************)
OklahomaGMen == [prefix |-> "", rest |-> <<"Oklahoma GMen">>]

Fid0001 == <<"0", "0", "0", "1">>
Fid0002 == <<"0", "0", "0", "2">>

\* franchise meta maps (in iteration order) that name franchise 0002
LeagueMetas ==
    LET m2 == [fid |-> Fid0002, name |-> OklahomaGMen]
        m1 == [fid |-> Fid0001, name |-> NoName]
    IN  {<<m2>>, <<m1, m2>>, <<m2, m1>>}

\* the assets of franchise 0002 as parse_assets builds them, and the dict
\* variant that carries the picks as string codes
LeagueAssets ==
    LET tuples == [franchise_id |-> Fid0002, name |-> NoName,
                   player_ids |-> <<10, 11, 12>>,
                   future_picks |-> << <<2026, 1, Fid0002>>, <<2026, 2, Fid0002>> >>,
                   picks |-> << >>]
        codes == [franchise_id |-> Fid0002, name |-> NoName,
                  player_ids |-> <<10, 11, 12>>,
                  future_picks |-> << >>,
                  picks |-> << <<"F","P","_","0","0","0","2","_","2","0","2","6","_","1">>,
                               <<"F","P","_","0","0","0","2","_","2","0","2","6","_","2">> >>]
        other == [franchise_id |-> <<"1">>, name |-> NoName,
                  player_ids |-> <<10, 13>>,
                  future_picks |-> << <<2026, 1, Fid0001>> >>, picks |-> << >>]
        blank == [franchise_id |-> << >>, name |-> NoName,
                  player_ids |-> <<14>>, future_picks |-> << >>, picks |-> << >>]
    IN  UNION {{<<a>>, <<a, b>>, <<b, a>>} :
                   a \in {tuples, codes}, b \in {other, blank}}

\* the tables before: empty, or the rows of an earlier sync of the league
\* (team 0002 under a placeholder or an older name, with older rows)
StoresBefore ==
    {[teams |-> {}, rosters |-> EmptyTable, draft_picks |-> EmptyTable]}
    \cup
    {[teams |-> {[id |-> 1, league |-> 1, mfl_id |-> Fid0002, name |-> nm]},
      rosters |-> AddRows(EmptyTable, RosterRows(1, <<10, 15>>)),
      draft_picks |-> AddRows(EmptyTable,
                              DraftPickRows(1, << <<2025, 3, Fid0001>> >>))] :
        nm \in {PlaceholderName(Fid0002), [prefix |-> "", rest |-> <<"Sooners">>]}}

InfoInit ==
    /\ franchise_meta \in LeagueMetas
    /\ infoPc = "pending"
    /\ \E st \in StoresBefore :
           /\ teams = st.teams
           /\ rosters = st.rosters
           /\ draft_picks = st.draft_picks
           /\ syncBefore = st
    /\ players = {}
    /\ syncPc = "idle"
    /\ syncLeague = 1
    /\ franchises = << >>
    /\ syncIdx = 1
    /\ syncCalls = 0
    /\ syncRepeat = FALSE

\* Mutant: an existing team keeps its name.
UpsertTeam_create_only(tms, league_id, fid_raw, name) ==
    LET fid == _fid(fid_raw)
        found == TeamsFor(tms, league_id, fid)
    IN  IF found = {}
        THEN tms \cup {[id |-> NextTeamId(tms), league |-> league_id, mfl_id |-> fid,
                        name |-> IF name # NoName THEN name ELSE PlaceholderName(fid)]}
        ELSE tms

\* Mutant: the team is looked up under the id as the payload writes it.
UpsertTeam_raw_lookup(tms, league_id, fid_raw, name) ==
    LET fid == _fid(fid_raw)
        found == TeamsFor(tms, league_id, fid_raw)
    IN  IF found = {}
        THEN tms \cup {[id |-> NextTeamId(tms), league |-> league_id, mfl_id |-> fid,
                        name |-> IF name # NoName THEN name ELSE PlaceholderName(fid)]}
        ELSE tms

\* sync_league_info, lines 159-190: one entry of the meta map
UpsertTeam(tms, league_id, fid_raw, name) ==
    LET fid == _fid(fid_raw)
        found == TeamsFor(tms, league_id, fid)
    IN  IF found = {}
        THEN tms \cup {[id |-> NextTeamId(tms), league |-> league_id, mfl_id |-> fid,
                        name |-> IF name # NoName THEN name ELSE PlaceholderName(fid)]}
        ELSE LET team == FirstTeam(found)
             IN  IF name # NoName /\ team.name # name
                 THEN (tms \ {team}) \cup {[team EXCEPT !.name = name]}
                 ELSE tms

RECURSIVE UpsertTeams(_, _, _)
UpsertTeams(tms, league_id, meta) ==
    IF Len(meta) = 0 THEN tms
    ELSE UpsertTeams(UpsertTeam(tms, league_id, Head(meta).fid, Head(meta).name),
                     league_id, Tail(meta))

\* sync_league_info: every franchise of the meta map is created or updated,
\* then one commit
sync_league_info ==
    /\ InfoFrame
    /\ infoPc = "pending"
    /\ teams' = UpsertTeams(teams, syncLeague, franchise_meta)
    /\ infoPc' = "done"
    /\ UNCHANGED <<rosters, draft_picks, players, syncPc, syncLeague, franchises,
                   syncIdx, syncCalls, syncBefore, syncRepeat, franchise_meta>>

\* mfl/routes.py 520-523: sync_league_info raises, the error is logged and
\* the loop goes on to the assets
sync_league_info_raise ==
    /\ InfoFrame
    /\ infoPc = "pending"
    /\ infoPc' = "failed"
    /\ UNCHANGED <<syncVars, franchise_meta>>

\* mfl/routes.py 526-527: sync_league_assets is called with the assets
league_sync_assets(frs) ==
    /\ infoPc \in {"done", "failed"}
    /\ sync_league_assets_call(syncLeague, frs)

InfoNext ==
    \/ sync_league_info
    \/ sync_league_info_raise
    \/ \E frs \in LeagueAssets : league_sync_assets(frs)
    \/ sync_league_assets_skip
    \/ sync_league_assets_clear
    \/ sync_league_assets_rebuild
    \/ sync_league_assets_return
    \/ sync_league_assets_raise

\* C27: when the metadata names franchise 0002 "Oklahoma GMen" and the
\* assets list three players and the picks FP_0002_2026_1 and FP_0002_2026_2
\* for it, a completed sync leaves one franchise row "0002" named
\* "Oklahoma GMen", exactly three roster rows and exactly the two draft-pick
\* rows of season 2026, rounds 1 and 2, original team "0002".
C27_OklahomaSyncResult ==
    (infoPc = "done" /\ syncPc = "done") =>
        LET mine == TeamsFor(teams, syncLeague, Fid0002) IN
        /\ Cardinality(mine) = 1
        /\ \A t \in mine :
             /\ t.name = OklahomaGMen
             /\ RowsOfTeams(rosters, {t.id}) =
                    [r \in {[team_id |-> t.id, player_id |-> p, is_starter |-> FALSE] :
                                p \in {10, 11, 12}} |-> 1]
             /\ RowsOfTeams(draft_picks, {t.id}) =
                    [r \in {[team_id |-> t.id, season |-> 2026, round |-> n,
                             pick_number |-> None, original_team |-> Fid0002] :
                                n \in {1, 2}} |-> 1]

C27_Witness ==
    /\ infoPc = "done" /\ syncPc = "done"
    /\ syncBefore.teams # {}
    /\ Len(franchises) = 2
    /\ \E t \in teams : t.mfl_id = Fid0002 /\ t.name = OklahomaGMen

(***************************************************************************)
(* mfl/routes.py, the open-trades page: every cached trade is classified   *)
(* and appended to to_you or from_you, then both lists are sorted newest   *)
(* first.                                                                  *)
(***************************************************************************)
MaxShown == 2

\* a cached trade: league, proposer and offeree (None when MFL does not
\* expose them) and the creation time
FlatTrades ==
    [league_id : {"11111", "22222"},
     proposed_by : {None, Fid0001, Fid0002},
     offered_to : {None, Fid0001},
     created : {0, 5}]

\* _pad: None stays None, digits are padded to four
_pad(fid) == IF fid = None THEN None ELSE _fid(fid)

\* my_fid_by_league.get(league_id)
MyFid(map, league_id) ==
    IF league_id \in DOMAIN map THEN map[league_id] ELSE None

\* Mutant: a trade that is not offered to the user counts as proposed by them.
classify_by_offeree(map, tr) ==
    LET my_fid == MyFid(map, tr.league_id) IN
    IF my_fid = None THEN "to_you"
    ELSE IF tr.offered_to # my_fid THEN "from_you"
    ELSE "to_you"

\* classify, lines 793-804
classify(map, tr) ==
    LET my_fid == MyFid(map, tr.league_id) IN
    IF my_fid = None THEN "to_you"
    ELSE IF tr.proposed_by # None /\ tr.proposed_by = my_fid THEN "from_you"
    ELSE "to_you"

RECURSIVE InsertNewestFirst(_, _)
\* place x behind every entry that is at least as new
InsertNewestFirst(sorted, x) ==
    IF Len(sorted) = 0 THEN <<x>>
    ELSE IF Head(sorted).tr.created >= x.tr.created
         THEN <<Head(sorted)>> \o InsertNewestFirst(Tail(sorted), x)
         ELSE <<x>> \o sorted

RECURSIVE SortNewestFirst(_)
\* list.sort(key=created, reverse=True): stable
SortNewestFirst(list) ==
    IF Len(list) = 0 THEN << >>
    ELSE InsertNewestFirst(SortNewestFirst(SubSeq(list, 1, Len(list) - 1)),
                           list[Len(list)])

SplitInit ==
    /\ trades_flat \in UNION {[1..n -> FlatTrades] : n \in 0..MaxShown}
    /\ \E raw \in {None, <<"1">>} : my_fid_by_league = [l \in {"11111"} |-> _pad(raw)]
    /\ splitIdx = 1
    /\ to_you = << >>
    /\ from_you = << >>
    /\ splitPc = "split"

\* lines 807-823: one trade is enriched and appended to its group
split_trade ==
    /\ SplitFrame
    /\ splitPc = "split"
    /\ splitIdx <= Len(trades_flat)
    /\ LET tr == trades_flat[splitIdx]
           enriched == [pos |-> splitIdx, tr |-> tr,
                        my_franchise_id |-> MyFid(my_fid_by_league, tr.league_id)]
       IN  IF classify(my_fid_by_league, tr) = "to_you"
           THEN to_you' = Append(to_you, enriched) /\ UNCHANGED from_you
           ELSE from_you' = Append(from_you, enriched) /\ UNCHANGED to_you
    /\ splitIdx' = splitIdx + 1
    /\ UNCHANGED <<trades_flat, my_fid_by_league, splitPc>>

\* lines 825-830: both groups are sorted and shown
split_sort ==
    /\ SplitFrame
    /\ splitPc = "split"
    /\ splitIdx > Len(trades_flat)
    /\ to_you' = SortNewestFirst(to_you)
    /\ from_you' = SortNewestFirst(from_you)
    /\ splitPc' = "shown"
    /\ UNCHANGED <<trades_flat, my_fid_by_league, splitIdx>>

SplitNext ==
    \/ split_trade
    \/ split_sort

\* how often the trade at a position is in a group
TimesIn(list, pos) == Cardinality({i \in 1..Len(list) : list[i].pos = pos})

\* the user's franchise is known for the league and is the trade's proposer
UserIsProposer(tr) ==
    /\ MyFid(my_fid_by_league, tr.league_id) # None
    /\ tr.proposed_by = MyFid(my_fid_by_league, tr.league_id)

\* C28: every trade of the page is in exactly one of the groups "from you"
\* and "to you", once; it is in "from you" exactly when the user's franchise
\* is identified as the proposer, and in "to you" in every other case.
C28_FromYouOnlyWhenProposer ==
    \A pos \in 1..Len(trades_flat) :
        pos < splitIdx =>
            /\ TimesIn(to_you, pos) + TimesIn(from_you, pos) = 1
            /\ TimesIn(from_you, pos) = 1 <=> UserIsProposer(trades_flat[pos])

C28_Witness ==
    /\ splitPc = "shown"
    /\ Len(from_you) = 1 /\ Len(to_you) = 1
    /\ to_you[1].tr.proposed_by = None
    /\ to_you[1].tr.league_id = from_you[1].tr.league_id

(***************************************************************************)
(* offers/routes.py build: for one linked league, the buy branch (lines    *)
(* 283-331), the standard sell branch (333-394) and the pick-upgrade       *)
(* branch (396-447) decide whether the league is listed.                   *)
(***************************************************************************)
MaxPicks == 2

\* the teams of the league: team 1 is the user's, when the league has one;
\* 0 stands for no team (my_team not found, player on no roster)
BuildTeams == {1, 2, 3}

\* PRICE_INDEX.get(template_code, {}): round -> count, as pairs
PRICE_INDEX(template_code) ==
    CASE template_code = "2x1st" -> {<<1, 2>>}
      [] template_code = "1st" -> {<<1, 1>>}
      [] template_code = "2nd" -> {<<2, 1>>}
      [] OTHER -> {}

\* the round of every DraftPick row of a team
PickRounds(league, team) == league.picks[team]

\* _pick_counts_by_round(team)[rnd], 0 when the round is missing
_pick_counts_by_round(league, team, rnd) ==
    Cardinality({i \in 1..Len(PickRounds(league, team)) :
                     PickRounds(league, team)[i] = rnd})

\* Mutant: every requirement counts as met.
_meets_requirements_always(league, team, requirement) == TRUE

\* _meets_requirements(_pick_counts_by_round(team), req)
_meets_requirements(league, team, requirement) ==
    \A need \in requirement : _pick_counts_by_round(league, team, need[1]) >= need[2]

\* _owns_player(team, player_id)
_owns_player(league, team) == league.owner = team

BuildInit ==
    /\ build \in [mode : {"buy", "sell"},
                  template_code : {"1st", "2x1st", "upgrade"},
                  my_team : {0, 1},
                  owner : {0, 1, 2},
                  picks : [BuildTeams -> {[i \in 1..n |-> 1] : n \in 0..MaxPicks}],
                  sent : BOOLEAN]
    /\ rows = << >>
    /\ buildPc = "league"

\* lines 285-331: the buy branch for the league
build_buy ==
    /\ BuildFrame
    /\ buildPc = "league" /\ build.mode = "buy"
    /\ LET requirement == PRICE_INDEX(build.template_code)
           listed ==
               /\ build.my_team # 0
               /\ ~_owns_player(build, build.my_team)
               /\ build.owner # 0 /\ build.owner # build.my_team
               /\ _meets_requirements(build, build.my_team, requirement)
               /\ ~build.sent
       IN  rows' = IF listed
                   THEN Append(rows, [my_team |-> build.my_team,
                                      counterparty |-> {build.owner}])
                   ELSE rows
    /\ buildPc' = "rendered"
    /\ UNCHANGED build

\* lines 335-394: the sell branch for a standard template
build_sell ==
    /\ BuildFrame
    /\ buildPc = "league" /\ build.mode = "sell" /\ build.template_code # "upgrade"
    /\ LET requirement == PRICE_INDEX(build.template_code)
           eligible_buyers ==
               {t \in BuildTeams \ {build.my_team} : _meets_requirements(build, t, requirement)}
           listed ==
               /\ build.my_team # 0
               /\ _owns_player(build, build.my_team)
               /\ eligible_buyers # {}
               /\ ~build.sent
       IN  rows' = IF listed
                   THEN Append(rows, [my_team |-> build.my_team,
                                      counterparty |-> eligible_buyers])
                   ELSE rows
    /\ buildPc' = "rendered"
    /\ UNCHANGED build

\* lines 396-447: the pick-upgrade branch lists every league in which the
\* user owns the player; a missing pick or an earlier send only disables it
build_sell_upgrade ==
    /\ BuildFrame
    /\ buildPc = "league" /\ build.mode = "sell" /\ build.template_code = "upgrade"
    /\ rows' = IF build.my_team # 0 /\ _owns_player(build, build.my_team)
               THEN Append(rows, [my_team |-> build.my_team,
                                  counterparty |-> BuildTeams \ {build.my_team}])
               ELSE rows
    /\ buildPc' = "rendered"
    /\ UNCHANGED build

BuildNext ==
    \/ build_buy
    \/ build_sell
    \/ build_sell_upgrade

Listed == Len(rows) > 0

\* buy: the user does not own the player and another franchise does;
\* sell: the user owns the player
CounterpartCondition ==
    IF build.mode = "buy"
    THEN build.owner # 0 /\ build.owner # build.my_team
    ELSE build.owner = build.my_team

\* enough picks for a requirement, counted on the rows of the team
HoldsEnough(team, code) ==
    \A need \in PRICE_INDEX(code) :
        Cardinality({i \in 1..Len(build.picks[team]) : build.picks[team][i] = need[1]})
            >= need[2]

\* the franchise the user would trade with holds enough picks
PartnerHoldsEnough ==
    IF build.mode = "buy"
    THEN build.owner \in BuildTeams /\ HoldsEnough(build.owner, build.template_code)
    ELSE \E t \in BuildTeams \ {build.my_team} : HoldsEnough(t, build.template_code)

\* the franchise that pays the picks holds enough: the user's when buying,
\* another franchise when selling
PayerHoldsEnough ==
    IF build.mode = "buy"
    THEN HoldsEnough(build.my_team, build.template_code)
    ELSE \E t \in BuildTeams \ {build.my_team} : HoldsEnough(t, build.template_code)

StandardBuild ==
    /\ buildPc = "rendered"
    /\ build.template_code # "upgrade"
    /\ build.my_team # 0

MaxLinked == 2

\* the ids of the leagues the user can have linked
LinkedIds == 1..MaxLinked

\* the rows one league can own: no team, one team, or two teams, each with
\* a roster row and a pick row; team ids are 10 * league + n
LeagueTeams(lg, n) ==
    {[id |-> 10 * lg + k, league |-> lg, mfl_id |-> ZFill(IntStr(k), 4),
      name |-> PlaceholderName(ZFill(IntStr(k), 4))] : k \in 1..n}

RECURSIVE SetToSeq(_)
\* [lg for lg in existing ...]: the ids in ascending order
SetToSeq(S) ==
    IF S = {} THEN << >>
    ELSE LET m == CHOOSE x \in S : \A y \in S : x <= y
         IN  <<m>> \o SetToSeq(S \ {m})

\* Mutant: the team ids are not restricted to the league.
LeagueTeamIds_any(tms, lg) == {t.id : t \in tms}

\* db.session.query(Team.id).filter(Team.league_id == lg.id)
LeagueTeamIds(tms, lg) == {t.id : t \in {u \in tms : u.league = lg}}

\* Query.filter(team_id.in_(team_ids)).delete()
DeleteRowsIn(table, team_ids) ==
    [r \in {x \in DOMAIN table : x.team_id \notin team_ids} |-> table[r]]

DelInit ==
    /\ leagues \in (SUBSET LinkedIds) \ {{}}
    /\ selected_ids \in SUBSET LinkedIds
    /\ to_delete = SetToSeq(leagues \ selected_ids)
    /\ delIdx = 1
    /\ delPc = "deleting"
    /\ \E size \in [LinkedIds -> 0..2] :
         LET tms == UNION {LeagueTeams(lg, size[lg]) : lg \in leagues}
             ids == SetToSeq({t.id : t \in tms})
         IN  /\ teams = tms
             /\ rosters = AddRows(EmptyTable,
                    [i \in 1..Len(ids) |->
                        [team_id |-> ids[i], player_id |-> 10, is_starter |-> FALSE]])
             /\ draft_picks = AddRows(EmptyTable,
                    [i \in 1..Len(ids) |->
                        [team_id |-> ids[i], season |-> 2026, round |-> 1,
                         pick_number |-> None, original_team |-> None]])
             /\ \A lg \in LinkedIds \ leagues : size[lg] = 0
    /\ syncBefore = [teams |-> teams, rosters |-> rosters, draft_picks |-> draft_picks]
    /\ players = {10}
    /\ syncPc = "idle"
    /\ syncLeague = 1
    /\ franchises = << >>
    /\ syncIdx = 1
    /\ syncCalls = 0
    /\ syncRepeat = FALSE

DelUnchanged ==
    UNCHANGED <<players, syncPc, syncLeague, franchises, syncIdx, syncCalls,
                syncBefore, syncRepeat, selected_ids, to_delete>>

\* lines 321-337: the rows of the league's teams, the teams and the league
\* are deleted
delete_league ==
    /\ DelFrame
    /\ delPc = "deleting"
    /\ delIdx <= Len(to_delete)
    /\ LET lg == to_delete[delIdx]
           team_ids == LeagueTeamIds(teams, lg)
       IN  /\ rosters' = DeleteRowsIn(rosters, team_ids)
           /\ draft_picks' = DeleteRowsIn(draft_picks, team_ids)
           /\ teams' = {t \in teams : t.id \notin team_ids}
           /\ leagues' = leagues \ {lg}
    /\ delIdx' = delIdx + 1
    /\ UNCHANGED delPc
    /\ DelUnchanged

\* lines 338-342: a statement raises after `done` of the three child
\* deletes; db.session.rollback is named but not called, so what was deleted
\* stays in the transaction and the loop continues with the next league
delete_league_raise(done) ==
    /\ DelFrame
    /\ delPc = "deleting"
    /\ delIdx <= Len(to_delete)
    /\ LET lg == to_delete[delIdx]
           team_ids == LeagueTeamIds(teams, lg)
       IN  /\ rosters' = IF done >= 1 THEN DeleteRowsIn(rosters, team_ids) ELSE rosters
           /\ draft_picks' = IF done >= 2 THEN DeleteRowsIn(draft_picks, team_ids)
                             ELSE draft_picks
           /\ teams' = IF done >= 3 THEN {t \in teams : t.id \notin team_ids} ELSE teams
    /\ delIdx' = delIdx + 1
    /\ UNCHANGED <<leagues, delPc>>
    /\ DelUnchanged

\* the failure left the transaction unusable (a failed flush, an aborted
\* database transaction): the commit of line 344 raises and nothing of this
\* request is deleted
delete_transaction_lost ==
    /\ DelFrame
    /\ delPc = "deleting"
    /\ delIdx <= Len(to_delete)
    /\ teams' = syncBefore.teams
    /\ rosters' = syncBefore.rosters
    /\ draft_picks' = syncBefore.draft_picks
    /\ leagues' = leagues \cup {to_delete[i] : i \in 1..Len(to_delete)}
    /\ delPc' = "crashed"
    /\ UNCHANGED delIdx
    /\ DelUnchanged

\* line 344: db.session.commit()
delete_commit ==
    /\ DelFrame
    /\ delPc = "deleting"
    /\ delIdx > Len(to_delete)
    /\ delPc' = "committed"
    /\ UNCHANGED <<teams, rosters, draft_picks, leagues, delIdx>>
    /\ DelUnchanged

DelNext ==
    \/ delete_league
    \/ \E done \in 0..3 : delete_league_raise(done)
    \/ delete_transaction_lost
    \/ delete_commit

\* the leagues of the user that were de-selected and are deleted
DeletedLeagues == {to_delete[i] : i \in 1..Len(to_delete)} \ leagues

\* C30: once the deletion is committed, no team, roster or draft-pick row
\* of a de-selected and deleted league remains, and the teams, roster rows
\* and draft-pick rows of every league that stays selected are as before.
C30_DeletedLeagueLeavesNoRows ==
    delPc = "committed" =>
        /\ \A lg \in DeletedLeagues :
             LET was == LeagueTeamIds(syncBefore.teams, lg)
             IN  /\ LeagueTeamIds(teams, lg) = {}
                 /\ RowsOfTeams(rosters, was) = EmptyTable
                 /\ RowsOfTeams(draft_picks, was) = EmptyTable
        /\ \A lg \in leagues \cap selected_ids :
             LET was == LeagueTeamIds(syncBefore.teams, lg)
             IN  /\ {t \in teams : t.league = lg} = {t \in syncBefore.teams : t.league = lg}
                 /\ RowsOfTeams(rosters, was) = RowsOfTeams(syncBefore.rosters, was)
                 /\ RowsOfTeams(draft_picks, was) =
                        RowsOfTeams(syncBefore.draft_picks, was)

C30_Witness ==
    /\ delPc = "committed"
    /\ \E lg \in DeletedLeagues : Cardinality(LeagueTeamIds(syncBefore.teams, lg)) = 2
    /\ \E lg \in leagues \cap selected_ids : LeagueTeamIds(teams, lg) # {}
    /\ rosters # EmptyTable

(***************************************************************************)
(* Any sequence of sync_league_info, sync_league_assets and                *)
(* sync_league_standings calls on the leagues of a user, with payloads     *)
(* that write franchise ids with and without zero padding.                 *)
(***************************************************************************)
SyncedLeagues == {1, 2}

\* franchise meta maps whose keys name franchise 1 with and without padding
RawMetas ==
    LET plain == [fid |-> <<"1">>, name |-> NoName]
        padded == [fid |-> Fid0001, name |-> OklahomaGMen]
        second == [fid |-> <<"2">>, name |-> NoName]
    IN  {<<plain>>, <<padded>>, <<plain, padded>>, <<padded, second>>}

\* standings rows: the franchise id of each row; an empty id is passed over
StandingRows ==
    {<< <<"1">> >>, << Fid0001, <<"1">> >>, << << >>, <<"2">> >>}

\* asset payloads with both spellings of franchise 1
AssetPayloads ==
    {frs \in Payloads :
        /\ Len(frs) \in {1, 2}
        /\ frs[1].franchise_id = <<"1">>
        /\ Len(frs) = 2 => frs[2].franchise_id \in {Fid0001, << >>}}

TeamsInit == SyncInit

RECURSIVE EnsureTeams(_, _, _)
\* sync_league_standings, lines 283-293: _ensure_team for every row with an id
EnsureTeams(tms, league_id, rws) ==
    IF Len(rws) = 0 THEN tms
    ELSE IF Head(rws) = << >> THEN EnsureTeams(tms, league_id, Tail(rws))
    ELSE EnsureTeams(_ensure_team(tms, league_id, _fid(Head(rws)), NoName).teams,
                     league_id, Tail(rws))

SyncIsIdle == syncPc \in {"idle", "done", "failed"}

\* sync_league_info on a league, between two asset syncs
teams_sync_league_info(league_id, meta) ==
    /\ SyncFrame
    /\ SyncIsIdle
    /\ syncCalls < MaxSyncCalls
    /\ syncCalls' = syncCalls + 1
    /\ teams' = UpsertTeams(teams, league_id, meta)
    /\ UNCHANGED <<rosters, draft_picks, players, syncPc, syncLeague, franchises,
                   syncIdx, syncBefore, syncRepeat>>

\* sync_league_standings on a league: the standings columns are not part of
\* the team rows of the model, the rows are created as in the code
teams_sync_league_standings(league_id, rws) ==
    /\ SyncFrame
    /\ SyncIsIdle
    /\ syncCalls < MaxSyncCalls
    /\ syncCalls' = syncCalls + 1
    /\ teams' = EnsureTeams(teams, league_id, rws)
    /\ UNCHANGED <<rosters, draft_picks, players, syncPc, syncLeague, franchises,
                   syncIdx, syncBefore, syncRepeat>>

TeamsNext ==
    \/ \E league_id \in SyncedLeagues, meta \in RawMetas :
           teams_sync_league_info(league_id, meta)
    \/ \E league_id \in SyncedLeagues, rws \in StandingRows :
           teams_sync_league_standings(league_id, rws)
    \/ \E league_id \in SyncedLeagues, frs \in AssetPayloads :
           sync_league_assets_call(league_id, frs)
    \/ sync_league_assets_skip
    \/ sync_league_assets_clear
    \/ sync_league_assets_rebuild
    \/ sync_league_assets_return
    \/ sync_league_assets_raise

\* C31: at every moment of any sequence of league-info, asset and standings
\* syncs, the teams table holds at most one row for each pair of league and
\* normalized franchise id, and every stored id is normalized.
C31_OneTeamPerLeagueAndFranchise ==
    \A t \in teams, u \in teams :
        /\ t.mfl_id = _fid(t.mfl_id)
        /\ (t.league = u.league /\ t.mfl_id = u.mfl_id) => t = u

\* franchise 1 was written as "0001" by the metadata (its name comes from
\* there) and as "1" by the asset payload being synced
C31_Witness ==
    /\ syncPc = "done"
    /\ \E i \in 1..Len(franchises) : franchises[i].franchise_id = <<"1">>
    /\ \E t \in teams : /\ t.league = syncLeague /\ t.mfl_id = Fid0001
                        /\ t.name = OklahomaGMen

(***************************************************************************)
(* live/routes.py _LIVE_CACHE_STORE and injuries/routes.py _SERVER_CACHE:  *)
(* module-level dictionaries, each behind its lock.  The cap of 200 users  *)
(* and the TTL of 15 minutes are scaled down.                              *)
(***************************************************************************)
_LIVE_CACHE_MAX_USERS == 2
CACHE_TTL_SECONDS == 2
MaxCacheUsers == 3
MaxCacheClock == 2

CacheUsers == 1..MaxCacheUsers

\* _cache_key_for_current_user: (user id, year, week)
CacheKeys == {<<u, 2026, 1>> : u \in CacheUsers}

CacheInit ==
    /\ _LIVE_CACHE_STORE = << >>
    /\ _SERVER_CACHE = {}
    /\ cacheNow = 0

cache_tick ==
    /\ CacheFrame
    /\ cacheNow < MaxCacheClock
    /\ cacheNow' = cacheNow + 1
    /\ UNCHANGED <<_LIVE_CACHE_STORE, _SERVER_CACHE>>

\* _set_live_cache: at the cap a new user evicts the first key of the dict;
\* a user already stored keeps their place
_set_live_cache(user_id) ==
    /\ CacheFrame
    /\ LET known == \E i \in 1..Len(_LIVE_CACHE_STORE) : _LIVE_CACHE_STORE[i] = user_id
           kept == IF Len(_LIVE_CACHE_STORE) >= _LIVE_CACHE_MAX_USERS /\ ~known
                   THEN Tail(_LIVE_CACHE_STORE) ELSE _LIVE_CACHE_STORE
       IN  _LIVE_CACHE_STORE' = IF known THEN kept ELSE Append(kept, user_id)
    /\ UNCHANGED <<_SERVER_CACHE, cacheNow>>

\* _store_server_cached_payload: the entry is written, nothing is evicted
_store_server_cached_payload(cache_key) ==
    /\ CacheFrame
    /\ _SERVER_CACHE' = {e \in _SERVER_CACHE : e.key # cache_key}
                           \cup {[key |-> cache_key, ts |-> cacheNow]}
    /\ UNCHANGED <<_LIVE_CACHE_STORE, cacheNow>>

\* _get_server_cached_payload: an expired entry of the key asked for is dropped
_get_server_cached_payload(cache_key) ==
    /\ CacheFrame
    /\ _SERVER_CACHE' = {e \in _SERVER_CACHE :
                            ~(e.key = cache_key /\ cacheNow - e.ts >= CACHE_TTL_SECONDS)}
    /\ UNCHANGED <<_LIVE_CACHE_STORE, cacheNow>>

\* _clear_server_cached_payload
_clear_server_cached_payload(cache_key) ==
    /\ CacheFrame
    /\ _SERVER_CACHE' = {e \in _SERVER_CACHE : e.key # cache_key}
    /\ UNCHANGED <<_LIVE_CACHE_STORE, cacheNow>>

CacheNext ==
    \/ cache_tick
    \/ \E user_id \in CacheUsers : _set_live_cache(user_id)
    \/ \E cache_key \in CacheKeys : _store_server_cached_payload(cache_key)
    \/ \E cache_key \in CacheKeys : _get_server_cached_payload(cache_key)
    \/ \E cache_key \in CacheKeys : _clear_server_cached_payload(cache_key)

\* C32: neither cache ever holds more entries than the cap on the number of
\* users; a store at the cap evicts an entry.
C32_CachesStayWithinCap ==
    /\ Len(_LIVE_CACHE_STORE) <= _LIVE_CACHE_MAX_USERS
    /\ Cardinality(_SERVER_CACHE) <= _LIVE_CACHE_MAX_USERS

\* the live-scoring cache alone stays within its cap
LiveCacheWithinCap == Len(_LIVE_CACHE_STORE) <= _LIVE_CACHE_MAX_USERS

(***************************************************************************)
(* Pending trades for the template (services/mfl_trades_parsers.py)        *)
(***************************************************************************)
MaxPending == 2

\* trade ids are digit strings of one length, so their string order is
\* the order of their values
TradeIds == 1204..(1203 + MaxPending)

NormFids == {<<"0","0","0","1">>, <<"0","0","0","8">>}

ViewerInputs == NormFids \cup {<<"1">>, << >>}

\* TradeSide(players, picks) as _parse_assets_csv returns it
NoAssets == [players |-> << >>, picks |-> << >>]

TradeSides ==
    {NoAssets,
     [players |-> <<12263>>, picks |-> << >>],
     [players |-> << >>,
      picks |-> <<[season |-> 2026, round |-> 1,
                   original_fid |-> <<"0","0","0","6">>]>>]}

\* PendingTrade rows as parse_pending_trades builds them: both franchise
\* ids present and normalised
PendingTrades ==
    {[trade_id |-> i, offeringteam |-> p, offeredto |-> o,
      will_give_up |-> g, will_receive |-> r] :
        i \in TradeIds, p \in NormFids, o \in NormFids,
        g \in TradeSides, r \in TradeSides}

PendingLists ==
    {l \in UNION {[1..n -> {t \in PendingTrades : t.offeringteam # t.offeredto}]
                    : n \in 1..MaxPending} :
        \A i, j \in 1..Len(l) : i # j => l[i].trade_id # l[j].trade_id}

DirectionRank(direction) ==
    CASE direction = "received" -> 0
      [] direction = "sent" -> 1
      [] OTHER -> 2

\* one row of normalize_trades_for_template
NormRow(tr, my_fid) ==
    LET direction ==
            IF my_fid # << >> /\ tr.offeredto = my_fid THEN "received"
            ELSE IF my_fid # << >> /\ tr.offeringteam = my_fid THEN "sent"
            ELSE "other"
    IN  [trade_id |-> tr.trade_id,
         from_fid |-> _fid(tr.offeringteam),
         to_fid |-> _fid(tr.offeredto),
         players_out |-> tr.will_give_up.players,
         players_in |-> tr.will_receive.players,
         picks_out |-> tr.will_give_up.picks,
         picks_in |-> tr.will_receive.picks,
         direction |-> direction]

RowBefore(a, b) ==
    \/ DirectionRank(a.direction) < DirectionRank(b.direction)
    \/ /\ DirectionRank(a.direction) = DirectionRank(b.direction)
       /\ a.trade_id <= b.trade_id

RECURSIVE InsertRow(_, _)
InsertRow(list, r) ==
    IF list = << >> THEN <<r>>
    ELSE IF RowBefore(Head(list), r) THEN <<Head(list)>> \o InsertRow(Tail(list), r)
    ELSE <<r>> \o list

\* rows.sort(key=(direction rank, league_name, trade_id)), a stable sort;
\* league_name is the same for all rows of one call
RECURSIVE SortRows(_)
SortRows(list) ==
    IF list = << >> THEN << >>
    ELSE InsertRow(SortRows(SubSeq(list, 1, Len(list) - 1)), list[Len(list)])

normalize_trades_for_template(trades, my_fid_raw) ==
    LET my_fid == _fid(my_fid_raw)
    IN  SortRows([i \in 1..Len(trades) |-> NormRow(trades[i], my_fid)])

NormInit ==
    /\ pending \in PendingLists
    /\ viewer \in ViewerInputs
    /\ template_rows = [returned |-> FALSE, rows |-> << >>]

normalize_trades ==
    /\ NormFrame
    /\ ~template_rows.returned
    /\ template_rows' = [returned |-> TRUE,
                         rows |-> normalize_trades_for_template(pending, viewer)]
    /\ UNCHANGED <<pending, viewer>>

\* the page is asked for again with other trades pending
normalize_again ==
    /\ NormFrame
    /\ template_rows.returned
    /\ \E l \in PendingLists : \E v \in ViewerInputs :
            /\ Len(l) = 1
            /\ pending' = l
            /\ viewer' = v
            /\ template_rows' = [returned |-> TRUE,
                                 rows |-> normalize_trades_for_template(l, v)]

NormNext == normalize_trades \/ normalize_again

\* What a franchise gives in a pending trade: will_give_up is what the
\* proposer gives, will_receive is what the proposer receives, so what the
\* offeree gives (services/mfl_parsers.py, attribute-only shape)
GivenBy(tr, fid) ==
    IF fid = tr.offeringteam THEN tr.will_give_up
    ELSE IF fid = tr.offeredto THEN tr.will_receive
    ELSE NoAssets

ReceivedBy(tr, fid) ==
    IF fid = tr.offeringteam THEN tr.will_receive
    ELSE IF fid = tr.offeredto THEN tr.will_give_up
    ELSE NoAssets

TradeOfRow(r) == CHOOSE tr \in {pending[i] : i \in 1..Len(pending)} :
                    tr.trade_id = r.trade_id

Normalized == template_rows.returned

\* C33: in every row for a trade the viewing franchise received or sent,
\* players_out and picks_out are what the viewing franchise gives and
\* players_in and picks_in are what it receives.
C33_OutIsWhatViewerGives ==
    Normalized =>
        \A i \in 1..Len(template_rows.rows) :
            LET r == template_rows.rows[i]
                tr == TradeOfRow(r)
                me == _fid(viewer)
            IN  r.direction \in {"received", "sent"} =>
                    /\ r.players_out = GivenBy(tr, me).players
                    /\ r.picks_out = GivenBy(tr, me).picks
                    /\ r.players_in = ReceivedBy(tr, me).players
                    /\ r.picks_in = ReceivedBy(tr, me).picks

\* side check: the rows of trades the viewing franchise sent
C33_SentRowsAreViewerRelative ==
    Normalized =>
        \A i \in 1..Len(template_rows.rows) :
            LET r == template_rows.rows[i]
                tr == TradeOfRow(r)
                me == _fid(viewer)
            IN  r.direction = "sent" =>
                    /\ r.players_out = GivenBy(tr, me).players
                    /\ r.picks_out = GivenBy(tr, me).picks
                    /\ r.players_in = ReceivedBy(tr, me).players
                    /\ r.picks_in = ReceivedBy(tr, me).picks

(***************************************************************************)
(* mfl_config_submit: the sync phase after the fetch (mfl/routes.py)       *)
(***************************************************************************)
SubmitInit ==
    /\ FetchInit
    /\ submitIdx = 0
    /\ synced_at = {}
    /\ leagues_synced = 0
    /\ sync_failed = {}

\* the executor block is left when every future was collected
mfl_config_submit_pool_done ==
    /\ SubmitFrame
    /\ submitIdx = 0
    /\ \A host \in DOMAIN worker : worker[host].collected
    /\ submitIdx' = 1
    /\ UNCHANGED <<synced_at, leagues_synced, sync_failed>>

\* one pass of the loop over the targets: no bundle, the league is passed
\* over; otherwise sync_league_info (its errors are swallowed), then
\* sync_league_assets(lg, bundle.get("assets") or {}) and
\* sync_league_standings, the stamp and the counter; a database error
\* rolls back and flashes the league as failed
mfl_config_submit_sync(db_raises) ==
    /\ SubmitFrame
    /\ submitIdx \in 1..Len(fetch_specs)
    /\ LET lid == fetch_specs[submitIdx].lid
       IN  IF lid \notin DOMAIN fetched
           THEN /\ sync_failed' = sync_failed \cup {lid}
                /\ UNCHANGED <<synced_at, leagues_synced>>
           ELSE IF db_raises
           THEN /\ sync_failed' = sync_failed \cup {lid}
                /\ UNCHANGED <<synced_at, leagues_synced>>
           ELSE /\ synced_at' = synced_at \cup {lid}
                /\ leagues_synced' = leagues_synced + 1
                /\ UNCHANGED sync_failed
    /\ submitIdx' = submitIdx + 1

SubmitNext ==
    \/ \E host_key \in Hosts : _worker_request(host_key)
    \/ \E host_key \in Hosts, resp \in Responses : _worker_response(host_key, resp)
    \/ \E host_key \in Hosts : mfl_config_submit_collect(host_key)
    \/ mfl_config_submit_pool_done
    \/ \E db_raises \in BOOLEAN : mfl_config_submit_sync(db_raises)

\* the leagues whose bundle holds no assets: a request of the worker raised
\* before out["assets"] was assigned
AssetFetchFailed ==
    {lid \in DOMAIN fetched : fetched[lid].assets = "none"}

SyncPhaseOver == submitIdx > Len(fetch_specs)

\* C34: a league whose asset fetch failed is not stamped with synced_at
\* and is not counted among the synced leagues.
C34_FailedAssetFetchNotSynced ==
    SyncPhaseOver =>
        /\ AssetFetchFailed \cap synced_at = {}
        /\ leagues_synced <= Cardinality(DOMAIN fetched \ AssetFetchFailed)

\* side check: what the loop does count are the leagues it stamped
C34_CountIsStamped ==
    leagues_synced = Cardinality(synced_at)

(***************************************************************************)
(* Offer preview (offers/routes_confirm.py): preview_offers                *)
(***************************************************************************)
MaxPosted == 2

\* the database the preview reads: two leagues of the current user with two
\* teams each, the user's franchise being 0001 in both, and one future pick
\* held by every team
PreviewLeagues == {1, 2}

PreviewTeams ==
    {[id |-> 1, league_id |-> 1, mfl_id |-> <<"0","0","0","1">>],
     [id |-> 2, league_id |-> 1, mfl_id |-> <<"0","0","0","2">>],
     [id |-> 3, league_id |-> 2, mfl_id |-> <<"0","0","0","1">>],
     [id |-> 4, league_id |-> 2, mfl_id |-> <<"0","0","0","3">>]}

PreviewPicks ==
    {[id |-> t.id, team_id |-> t.id, original_team |-> t.mfl_id,
      season |-> 2026, round |-> 1] : t \in PreviewTeams}

PreviewFranchiseId == <<"1">>

PreviewPlayer == 100

\* the ids a form can post: picks of the table and one unknown id
PostedIds == {1, 2, 4, 9}

PostedLists ==
    UNION {[1..n -> PostedIds] : n \in 0..MaxPosted}

\* a query that finds no Team row
NoTeam == [id |-> 0, league_id |-> 0, mfl_id |-> << >>]

TeamById(id) ==
    IF \E t \in PreviewTeams : t.id = id
    THEN CHOOSE t \in PreviewTeams : t.id = id ELSE NoTeam

\* _my_team_for_league: Team of the league with mfl_id = franchise_id.zfill(4)
_my_team_for_league(lid) ==
    LET fid == Strip(PreviewFranchiseId)
        found == {t \in PreviewTeams :
                    t.league_id = lid /\ t.mfl_id = ZFill(fid, 4)}
    IN  IF fid = << >> \/ found = {} THEN NoTeam ELSE CHOOSE t \in found : TRUE

\* _owner_team_for_player: the posted player is on the roster of the other
\* team of each league
_owner_team_for_player(lid) ==
    CHOOSE t \in PreviewTeams : t.league_id = lid /\ t # _my_team_for_league(lid)

\* de-dup preserve order
RECURSIVE DedupKeepOrder(_)
DedupKeepOrder(list) ==
    IF list = << >> THEN << >>
    ELSE LET front == DedupKeepOrder(SubSeq(list, 1, Len(list) - 1))
             x == list[Len(list)]
         IN  IF \E i \in 1..Len(front) : front[i] = x THEN front
             ELSE Append(front, x)

\* _draftpick_tokens_from_ids: DraftPick.query.filter(DraftPick.id.in_(ids)),
\* then one token per id found, in the order posted
RECURSIVE _draftpick_tokens_from_ids(_)
_draftpick_tokens_from_ids(ids) ==
    IF ids = << >> THEN << >>
    ELSE LET found == {p \in PreviewPicks : p.id = Head(ids)}
             rest == _draftpick_tokens_from_ids(Tail(ids))
         IN  IF found = {} THEN rest
             ELSE <<_draftpick_to_token(CHOOSE p \in found : TRUE)>> \o rest

PreviewOffer(lid, by, to, give, recv) ==
    [league_id |-> lid, offered_by_fid |-> by.mfl_id, offered_to_fid |-> to.mfl_id,
     will_give_up |-> give, will_receive |-> recv]

\* buy mode: one offer per posted league with picks checked
RECURSIVE BuyOffers(_, _)
BuyOffers(league_ids, f) ==
    IF league_ids = << >> THEN << >>
    ELSE LET lid == Head(league_ids)
             rest == BuyOffers(Tail(league_ids), f)
             my_tm == _my_team_for_league(lid)
             will_give == _draftpick_tokens_from_ids(DedupKeepOrder(f.pick[lid]))
         IN  IF lid \notin PreviewLeagues \/ my_tm = NoTeam \/ will_give = << >>
             THEN rest
             ELSE <<PreviewOffer(lid, my_tm, _owner_team_for_player(lid),
                                 will_give, <<IntStr(PreviewPlayer)>>)>> \o rest

\* sell modes: one offer per posted buyer of the league with picks checked;
\* my_picks holds the token of the user's own pick in an upgrade
RECURSIVE SellOffers(_, _, _, _)
SellOffers(buyer_team_ids, lid, f, my_picks) ==
    IF buyer_team_ids = << >> THEN << >>
    ELSE LET buyer_team == TeamById(Head(buyer_team_ids))
             rest == SellOffers(Tail(buyer_team_ids), lid, f, my_picks)
             will_recv == _draftpick_tokens_from_ids(
                              DedupKeepOrder(f.pick[Head(buyer_team_ids)]))
         IN  IF buyer_team = NoTeam THEN rest
             ELSE IF buyer_team.league_id # lid \/ will_recv = << >> THEN rest
             ELSE <<PreviewOffer(lid, _my_team_for_league(lid), buyer_team,
                                 <<IntStr(PreviewPlayer)>> \o my_picks,
                                 will_recv)>> \o rest

BuyForms ==
    {[mode |-> "buy", template_code |-> "standard", league_id |-> ls,
      buyer |-> << >>, pick |-> pk, upgrade_my_pick |-> 0, give_round |-> 0] :
        ls \in {<<1>>, <<2>>, <<1, 2>>}, pk \in [PreviewLeagues -> PostedLists]}

SellBuyers == {2, 4}

SellForms ==
    {[mode |-> "sell", template_code |-> "standard", league_id |-> <<lid>>,
      buyer |-> bs, pick |-> pk, upgrade_my_pick |-> 0, give_round |-> 0] :
        lid \in PreviewLeagues,
        bs \in UNION {[1..n -> SellBuyers] : n \in 1..2},
        pk \in [SellBuyers -> PostedLists]}

UpgradeForms ==
    {[mode |-> "sell", template_code |-> "upgrade", league_id |-> <<lid>>,
      buyer |-> <<b>>, pick |-> pk, upgrade_my_pick |-> mine, give_round |-> g] :
        lid \in PreviewLeagues, b \in SellBuyers,
        pk \in [SellBuyers -> PostedLists], mine \in {1, 2}, g \in {1, 2}}

PreviewInit ==
    /\ form \in BuyForms \cup SellForms \cup UpgradeForms
    /\ pending_json = [rendered |-> FALSE, offers |-> << >>]

Rendered(offers) ==
    [rendered |-> offers # << >>, offers |-> offers]

preview_offers_buy ==
    /\ PreviewFrame
    /\ form.mode = "buy"
    /\ pending_json' = Rendered(BuyOffers(form.league_id, form))
    /\ UNCHANGED form

preview_offers_sell ==
    /\ PreviewFrame
    /\ form.mode = "sell" /\ form.template_code # "upgrade"
    /\ pending_json' =
         Rendered(SellOffers(form.buyer, form.league_id[1], form, << >>))
    /\ UNCHANGED form

\* the upgrade: the user's own pick is looked up and must be held by the
\* user's team and be of the round to give
preview_offers_upgrade ==
    /\ PreviewFrame
    /\ form.mode = "sell" /\ form.template_code = "upgrade"
    /\ LET lid == form.league_id[1]
           my_tm == _my_team_for_league(lid)
           pick_rows == {p \in PreviewPicks : p.id = form.upgrade_my_pick}
           valid == \E p \in pick_rows : p.team_id = my_tm.id /\ p.round = form.give_round
       IN  pending_json' =
             IF ~valid THEN Rendered(<< >>)
             ELSE Rendered(SellOffers(form.buyer, lid, form,
                                      <<_draftpick_to_token(CHOOSE p \in pick_rows : TRUE)>>))
    /\ UNCHANGED form

PreviewNext == preview_offers_buy \/ preview_offers_sell \/ preview_offers_upgrade

\* the posted pick ids that produced the pick tokens of one side of an offer
PostedFor(key) ==
    {id \in {form.pick[key][i] : i \in 1..Len(form.pick[key])} :
        \E p \in PreviewPicks : p.id = id}

HeldBy(id, fid, lid) ==
    \E p \in PreviewPicks :
        /\ p.id = id
        /\ \E t \in PreviewTeams :
              t.id = p.team_id /\ t.league_id = lid /\ t.mfl_id = fid

BuyerOf(o) ==
    CHOOSE t \in PreviewTeams :
        t.league_id = o.league_id /\ t.mfl_id = o.offered_to_fid

\* C35: a posted pick id becomes a token of an offer only if the pick is
\* held, in the league of the offer, by the franchise that would give it:
\* the user's in buy mode, the buyer's in the sell modes.
C35_OnlyPicksHeldByGiver ==
    \A i \in 1..Len(pending_json.offers) :
        LET o == pending_json.offers[i]
        IN  IF form.mode = "buy"
            THEN \A id \in PostedFor(o.league_id) :
                    HeldBy(id, o.offered_by_fid, o.league_id)
            ELSE \A id \in PostedFor(BuyerOf(o).id) :
                    HeldBy(id, o.offered_to_fid, o.league_id)

\* side check: the user's own pick of an upgrade is held by the user
C35_UpgradeOwnPickIsHeld ==
    \A i \in 1..Len(pending_json.offers) :
        (form.mode = "sell" /\ form.template_code = "upgrade")
            => HeldBy(form.upgrade_my_pick,
                      pending_json.offers[i].offered_by_fid,
                      pending_json.offers[i].league_id)

(***************************************************************************)
(* The footprint of sync_league_assets over two leagues                    *)
(***************************************************************************)
\* payloads that name franchise 1, franchise 2, both, or neither
FootprintPayloads ==
    {frs \in Payloads :
        /\ Len(frs) <= 2
        /\ Len(frs) = 2 =>
              /\ frs[1].franchise_id \in {<<"1">>, << >>, <<"0", "0", "0", "2">>}
              /\ frs[2].franchise_id \in {<<"1">>, <<"0", "0", "0", "2">>}
              /\ frs[1].franchise_id # frs[2].franchise_id}

FootprintNext ==
    \/ \E league_id \in SyncedLeagues, frs \in FootprintPayloads :
           sync_league_assets_call(league_id, frs)
    \/ sync_league_assets_skip
    \/ sync_league_assets_clear
    \/ sync_league_assets_rebuild
    \/ sync_league_assets_return
    \/ sync_league_assets_raise

TimesInTable(table, r) == IF r \in DOMAIN table THEN table[r] ELSE 0

\* the teams of the league of the call whose franchise the payload names
NamedTeamIds ==
    {t.id : t \in {u \in teams :
                     u.league = syncLeague /\ u.mfl_id \in {FidAt(i) : i \in Named}}}

RowChanged(table, before, r) == TimesInTable(table, r) # TimesInTable(before, r)

\* C36: from its entry on, a call of sync_league_assets changes roster and
\* draft-pick rows only of teams of its league whose franchise the payload
\* names; every other row, of an absent franchise of the league or of
\* another league, is stored as often as at the entry.
C36_OnlyNamedFranchisesChange ==
    syncPc # "idle" =>
        /\ \A r \in RowsIn(rosters) \cup RowsIn(syncBefore.rosters) :
              RowChanged(rosters, syncBefore.rosters, r) => r.team_id \in NamedTeamIds
        /\ \A r \in RowsIn(draft_picks) \cup RowsIn(syncBefore.draft_picks) :
              RowChanged(draft_picks, syncBefore.draft_picks, r)
                  => r.team_id \in NamedTeamIds

\* a second call has replaced the rows of franchise 1 while franchise 2 of
\* the same league, absent from the payload, holds rows
C36_Witness ==
    /\ syncPc = "done"
    /\ syncCalls = 2
    /\ \E r \in RowsIn(rosters) \cup RowsIn(syncBefore.rosters) :
          RowChanged(rosters, syncBefore.rosters, r)
    /\ \E t \in syncBefore.teams :
          /\ t.league = syncLeague
          /\ t.id \notin NamedTeamIds
          /\ RowsOfTeams(rosters, {t.id}) # EmptyTable
          /\ RowsOfTeams(draft_picks, {t.id}) # EmptyTable

\* the same with the untouched rows in the other league
C36_OtherLeagueWitness ==
    /\ syncPc = "done"
    /\ syncCalls = 2
    /\ rosters # syncBefore.rosters
    /\ \E t \in syncBefore.teams :
          t.league # syncLeague /\ RowsOfTeams(rosters, {t.id}) # EmptyTable

(***************************************************************************)
(* Lineups (lineups/routes.py): batch, single and rapid submission         *)
(***************************************************************************)
MaxStarts == 1          \* rapid flows started in one behaviour
MaxFailures == 2        \* submissions the remote host refuses

\* League rows: 1 and 2 belong to the current user, 3 to somebody else
LineupLeagueIds == {1, 2, 3}

CurrentUserId == "current_user"

LeagueUserId(league_id) == IF league_id = 3 THEN "another user" ELSE CurrentUserId

\* get_my_team_player_ids: the roster of the franchise of the league's user
get_my_team_player_ids(league_id) ==
    CASE league_id = 1 -> {10, 11}
      [] league_id = 2 -> {12}
      [] OTHER -> {99}

\* the starters a form posts (already through int())
SubmittedInputs == {<< >>, <<10>>, <<99>>, <<12, 99>>, <<10, 12>>}

\* Mutant: the posted ids are sent as they are.
StartersOf_unfiltered(submitted, allowed_ids) == submitted

\* [pid for pid in submitted if pid in allowed_ids]
StartersOf(submitted, allowed_ids) ==
    SelectSeq(submitted, LAMBDA pid : pid \in allowed_ids)

\* db.session.get(League, id) and the owner check
OwnedLeague(league_id) ==
    league_id \in lineup_leagues /\ LeagueUserId(league_id) = CurrentUserId

\* _user_synced_leagues, as League ids in the order of the query
_user_synced_leagues ==
    SelectSeq(<<1, 2, 3>>, LAMBDA l : OwnedLeague(l))

LineupRequest(league_id, starters) ==
    [league_id |-> league_id, starters |-> starters]

LineupInit ==
    /\ lineup_leagues = LineupLeagueIds
    /\ lineup_sent = {}
    /\ rapid_queue = << >>
    /\ rapid_idx = 0
    /\ rapid_events = {}
    /\ rapidCalls = [starts |-> 0, failures |-> 0]

\* a league is removed from the account between two requests
lineup_league_deleted ==
    /\ LineupFrame
    /\ 2 \in lineup_leagues
    /\ lineup_leagues' = lineup_leagues \ {2}
    /\ UNCHANGED <<lineup_sent, rapid_queue, rapid_idx, rapid_events, rapidCalls>>

\* lineups_submit: one job per league of the user that is included and has
\* starters left after the intersection; the form posts vals for each
\* league it includes
lineups_submit(gate, includes, vals) ==
    /\ LineupFrame
    /\ LET leagues_ == _user_synced_leagues
           jobs == {LineupRequest(leagues_[i],
                                  StartersOf(vals, get_my_team_player_ids(leagues_[i]))) :
                        i \in {j \in 1..Len(leagues_) : leagues_[j] \in includes}}
       IN  lineup_sent' =
             IF gate THEN lineup_sent
             ELSE lineup_sent \cup {job \in jobs : job.starters # << >>}
    /\ UNCHANGED <<lineup_leagues, rapid_queue, rapid_idx, rapid_events, rapidCalls>>

\* lineups_single_submit
lineups_single_submit(gate, league_id, vals) ==
    /\ LineupFrame
    /\ LET starters == StartersOf(vals, get_my_team_player_ids(league_id))
       IN  lineup_sent' =
             IF gate \/ ~OwnedLeague(league_id) \/ starters = << >>
             THEN lineup_sent
             ELSE lineup_sent \cup {LineupRequest(league_id, starters)}
    /\ UNCHANGED <<lineup_leagues, rapid_queue, rapid_idx, rapid_events, rapidCalls>>

\* lineups_rapid_start (POST): the queue is the user's leagues
lineups_rapid_start ==
    /\ LineupFrame
    /\ rapidCalls.starts < MaxStarts
    /\ _user_synced_leagues # << >>
    /\ rapid_queue' = _user_synced_leagues
    /\ rapid_idx' = 0
    /\ rapid_events' = {}
    /\ rapidCalls' = [rapidCalls EXCEPT !.starts = @ + 1]
    /\ UNCHANGED <<lineup_leagues, lineup_sent>>

RapidEvent(league_id, status) == [league_id |-> league_id, status |-> status]

\* lineups_rapid_league: a league of the queue that is gone or not the
\* user's is passed over; otherwise the page is rendered
lineups_rapid_league ==
    /\ LineupFrame
    /\ rapid_queue # << >>
    /\ rapid_idx < Len(rapid_queue)
    /\ rapid_idx' = IF OwnedLeague(rapid_queue[rapid_idx + 1])
                    THEN rapid_idx ELSE rapid_idx + 1
    /\ UNCHANGED <<lineup_leagues, lineup_sent, rapid_queue, rapid_events, rapidCalls>>

\* Mutant: a successful submission leaves the position where it is.
AfterRapidSubmit_stay(queue, idx, ok) ==
    IF ok THEN [queue |-> queue, idx |-> idx]
    ELSE IF idx < Len(queue)
    THEN [queue |-> SubSeq(queue, 1, idx) \o SubSeq(queue, idx + 2, Len(queue))
                        \o <<queue[idx + 1]>>,
          idx |-> idx]
    ELSE [queue |-> queue, idx |-> idx]

\* lineups_rapid_submit after the request: success moves the position on,
\* failure moves the league at the position to the back of the queue
AfterRapidSubmit(queue, idx, ok) ==
    IF ok THEN [queue |-> queue, idx |-> IF idx + 1 < Len(queue) THEN idx + 1 ELSE Len(queue)]
    ELSE IF idx < Len(queue)
    THEN [queue |-> SubSeq(queue, 1, idx) \o SubSeq(queue, idx + 2, Len(queue))
                        \o <<queue[idx + 1]>>,
          idx |-> idx]
    ELSE [queue |-> queue, idx |-> idx]

\* lineups_rapid_submit: the league is the one the form posts
lineups_rapid_submit(gate, league_id, vals, ok) ==
    /\ LineupFrame
    /\ ~ok => rapidCalls.failures < MaxFailures
    /\ LET starters == StartersOf(vals, get_my_team_player_ids(league_id))
           after == AfterRapidSubmit(rapid_queue, rapid_idx, ok)
       IN  IF gate \/ ~OwnedLeague(league_id)
           THEN UNCHANGED <<lineup_sent, rapid_queue, rapid_idx, rapid_events, rapidCalls>>
           ELSE IF starters = << >>
           THEN /\ rapid_events' = rapid_events \cup {RapidEvent(league_id, "error")}
                /\ UNCHANGED <<lineup_sent, rapid_queue, rapid_idx, rapidCalls>>
           ELSE /\ lineup_sent' = lineup_sent \cup {LineupRequest(league_id, starters)}
                /\ rapid_events' = rapid_events \cup
                      {RapidEvent(league_id, IF ok THEN "submitted" ELSE "error")}
                /\ rapid_queue' = after.queue
                /\ rapid_idx' = after.idx
                /\ rapidCalls' = IF ok THEN rapidCalls
                                 ELSE [rapidCalls EXCEPT !.failures = @ + 1]
    /\ UNCHANGED lineup_leagues

\* lineups_rapid_skip
lineups_rapid_skip ==
    /\ LineupFrame
    /\ IF rapid_queue # << >> /\ rapid_idx < Len(rapid_queue)
       THEN /\ rapid_events' =
                 IF rapid_queue[rapid_idx + 1] \in lineup_leagues
                 THEN rapid_events \cup {RapidEvent(rapid_queue[rapid_idx + 1], "skipped")}
                 ELSE rapid_events
            /\ rapid_idx' = rapid_idx + 1
       ELSE UNCHANGED <<rapid_idx, rapid_events>>
    /\ UNCHANGED <<lineup_leagues, lineup_sent, rapid_queue, rapidCalls>>

\* lineups_rapid_finish, reached by the redirect of lineups_rapid_league
\* when the position is at the end of the queue: the session keys are popped
lineups_rapid_finish ==
    /\ LineupFrame
    /\ rapid_queue # << >>
    /\ rapid_idx >= Len(rapid_queue)
    /\ rapid_queue' = << >>
    /\ rapid_idx' = 0
    /\ rapid_events' = {}
    /\ UNCHANGED <<lineup_leagues, lineup_sent, rapidCalls>>

\* the user going through the queue: the page of the league at the position
\* and a submission; skipping is possible at any time and never required
RapidStep ==
    \/ lineups_rapid_league
    \/ \E league_id \in LineupLeagueIds, vals \in SubmittedInputs, ok \in BOOLEAN :
           lineups_rapid_submit(FALSE, league_id, vals, ok)

LineupNext ==
    \/ lineup_league_deleted
    \/ \E gate \in BOOLEAN, includes \in SUBSET LineupLeagueIds, vals \in SubmittedInputs :
           lineups_submit(gate, includes, vals)
    \/ \E gate \in BOOLEAN, league_id \in LineupLeagueIds, vals \in SubmittedInputs :
           lineups_single_submit(gate, league_id, vals)
    \/ lineups_rapid_start
    \/ lineups_rapid_league
    \/ \E gate \in BOOLEAN, league_id \in LineupLeagueIds, vals \in SubmittedInputs,
          ok \in BOOLEAN :
           lineups_rapid_submit(gate, league_id, vals, ok)
    \/ lineups_rapid_skip
    \/ lineups_rapid_finish

\* C37: every lineup request sent to the remote host is for a league of the
\* current user and carries at least one starter, all of them players of
\* the user's own roster in that league.
C37_OwnLeagueOwnPlayersNonEmpty ==
    \A r \in lineup_sent :
        /\ LeagueUserId(r.league_id) = CurrentUserId
        /\ r.starters # << >>
        /\ \A i \in 1..Len(r.starters) :
              r.starters[i] \in get_my_team_player_ids(r.league_id)

\* requests were sent for both leagues of the user, one of them from a form
\* that also posted a player of another roster
C37_Witness ==
    /\ LineupRequest(1, <<10>>) \in lineup_sent
    /\ LineupRequest(2, <<12>>) \in lineup_sent

\* the outcome the finish page shows for a league that was dealt with
HasOutcome(league_id) ==
    \/ RapidEvent(league_id, "submitted") \in rapid_events
    \/ RapidEvent(league_id, "skipped") \in rapid_events

\* C38: every league of the queue before the current position has a
\* "submitted" or "skipped" event, or is no longer a league of the user.
C38_NoLeaguePassedWithoutOutcome ==
    \A i \in 1..Len(rapid_queue) :
        i <= rapid_idx => (HasOutcome(rapid_queue[i]) \/ ~OwnedLeague(rapid_queue[i]))

\* the submissions and skips of the league the page shows
RapidStepInOrder ==
    \/ lineups_rapid_league
    \/ /\ rapid_queue # << >> /\ rapid_idx < Len(rapid_queue)
       /\ \E gate \in BOOLEAN, vals \in SubmittedInputs, ok \in BOOLEAN :
             lineups_rapid_submit(gate, rapid_queue[rapid_idx + 1], vals, ok)
    \/ lineups_rapid_skip
    \/ lineups_rapid_start
    \/ lineups_rapid_finish
    \/ lineup_league_deleted

\* side check: steps that post the league at the position keep the property
C38_HoldsForLeagueAtPosition ==
    [][(C38_NoLeaguePassedWithoutOutcome /\ RapidStepInOrder)
           => C38_NoLeaguePassedWithoutOutcome']_lineupVars

FlowStarted == rapid_queue # << >>

FlowAtEnd == rapid_queue # << >> /\ rapid_idx >= Len(rapid_queue)

\* C39: once a rapid flow is started it reaches the end of its queue,
\* although a refused submission moves the league to the back; the host
\* refuses at most MaxFailures submissions and the user keeps going.
C39_RapidFlowReachesFinish == FlowStarted ~> FlowAtEnd

\* a refused submission has moved league 1 behind league 2
C39_Witness ==
    /\ rapid_queue = <<2, 1>>
    /\ rapidCalls.failures > 0
    /\ rapid_idx = 0

(***************************************************************************)
(* Stripe webhook (webhooks/routes.py) against services/entitlements.py    *)
(***************************************************************************)
MaxBillingDay == 3

FOUNDER_PRICE_ID == "price_founder"

FOUNDER_TERM_DAYS == 730

FOUNDER_LEAGUE_CAP == 50

FOUNDER_MASS_OFFERS == 99999

FREE_LEAGUE_CAP == 3

FREE_MASS_OFFERS == 0

\* a column that holds a value: the value and a mark, so that it differs
\* from None
Col(v) == <<v, "set">>

\* the recurring prices, named after their plan
PLAN_BY_PRICE ==
    ("price_mgr5_season" :> [code |-> <<"M","G","R","5","_","S","E","A","S","O","N">>,
        league_cap |-> 5, mass_offer_daily_cap |-> 3]) @@
    ("price_mgr5_weekly" :> [code |-> <<"M","G","R","5","_","W","E","E","K","L","Y">>,
        league_cap |-> 5, mass_offer_daily_cap |-> 3]) @@
    ("price_mgr12_season" :> [code |-> <<"M","G","R","1","2","_","S","E","A","S","O","N">>,
        league_cap |-> 12, mass_offer_daily_cap |-> 99999]) @@
    ("price_mgr12_weekly" :> [code |-> <<"M","G","R","1","2","_","W","E","E","K","L","Y">>,
        league_cap |-> 12, mass_offer_daily_cap |-> 99999]) @@
    ("price_pwr50_season" :> [code |-> <<"P","W","R","5","0","_","S","E","A","S","O","N">>,
        league_cap |-> 50, mass_offer_daily_cap |-> 99999]) @@
    ("price_pwr50_weekly" :> [code |-> <<"P","W","R","5","0","_","W","E","E","K","L","Y">>,
        league_cap |-> 50, mass_offer_daily_cap |-> 99999])

Code_FOUNDER == <<"F","O","U","N","D","E","R">>

Code_FREE == <<"F","R","E","E">>

\* the price ids an event can carry: the known ones and one unknown
PriceIds == DOMAIN PLAN_BY_PRICE \cup {"price_unknown"}

BillingInit ==
    /\ billing_user = [plan |-> None, league_cap |-> None,
                       mass_offer_daily_cap |-> None, stripe_price_id |-> "",
                       founder_expires_at |-> None, unlimited |-> FALSE]
    /\ billing_today = 0

billing_day_passes ==
    /\ BillingFrame
    /\ billing_today < MaxBillingDay
    /\ billing_today' = billing_today + 1
    /\ UNCHANGED billing_user

_apply_founder(u, now) ==
    [u EXCEPT !.founder_expires_at = Col(now + FOUNDER_TERM_DAYS),
              !.plan = Code_FOUNDER,
              !.league_cap = Col(FOUNDER_LEAGUE_CAP),
              !.mass_offer_daily_cap = Col(FOUNDER_MASS_OFFERS)]

\* an unknown price leaves the row as it is
_apply_subscription_plan(u, price_id) ==
    IF price_id \notin DOMAIN PLAN_BY_PRICE THEN u
    ELSE LET plan == PLAN_BY_PRICE[price_id]
         IN  [u EXCEPT !.plan = plan.code,
                       !.league_cap = Col(plan.league_cap),
                       !.mass_offer_daily_cap = Col(plan.mass_offer_daily_cap),
                       !.stripe_price_id = price_id]

_downgrade_to_free_or_founder(u, now) ==
    IF u.founder_expires_at # None /\ u.founder_expires_at[1] > now
    THEN _apply_founder(u, now)
    ELSE [u EXCEPT !.plan = Code_FREE,
                   !.league_cap = Col(FREE_LEAGUE_CAP),
                   !.mass_offer_daily_cap = Col(FREE_MASS_OFFERS),
                   !.stripe_price_id = ""]

\* checkout.session.completed, mode payment: the Founder purchase
handle_checkout_payment(price_ids) ==
    /\ BillingFrame
    /\ billing_user' =
         IF FOUNDER_PRICE_ID \in price_ids
         THEN [_apply_founder(billing_user, billing_today)
                  EXCEPT !.stripe_price_id = FOUNDER_PRICE_ID]
         ELSE billing_user
    /\ UNCHANGED billing_today

\* checkout.session.completed in mode subscription, and
\* customer.subscription.created / updated
handle_subscription(price_id) ==
    /\ BillingFrame
    /\ billing_user' = _apply_subscription_plan(billing_user, price_id)
    /\ UNCHANGED billing_today

\* customer.subscription.deleted
handle_subscription_deleted ==
    /\ BillingFrame
    /\ billing_user' = _downgrade_to_free_or_founder(billing_user, billing_today)
    /\ UNCHANGED billing_today

BillingNext ==
    \/ billing_day_passes
    \/ \E price_ids \in {{FOUNDER_PRICE_ID}, {"price_unknown"}} :
           handle_checkout_payment(price_ids)
    \/ \E price_id \in PriceIds : handle_subscription(price_id)
    \/ handle_subscription_deleted

\* the plan codes the webhook stores after a purchase
PaidCodes == {PLAN_BY_PRICE[p].code : p \in DOMAIN PLAN_BY_PRICE} \cup {Code_FOUNDER}

BillingEnt == get_entitlements(billing_user, billing_today)

\* C40: whenever the User row holds a plan code stored after a paid
\* purchase, get_entitlements resolves it to a paid plan whose league cap
\* and daily mass-offer cap are the ones the webhook stored in the row.
C40_StoredPlanResolvesToGrantedCaps ==
    billing_user.plan \in PaidCodes =>
        /\ BillingEnt.plan_key # K_free
        /\ Col(BillingEnt.rules.league_cap) = billing_user.league_cap
        /\ Col(BillingEnt.rules.mass_offer_daily_cap) = billing_user.mass_offer_daily_cap

\* side check: the Founder code is resolved to the founder plan while
\* the window the webhook has set is open
C40_FounderResolvesToFounder ==
    billing_user.plan = Code_FOUNDER => BillingEnt.plan_key = K_founder

\* side check: every subscription code is resolved to the free plan
C40_SubscriptionCodesResolveToFree ==
    (billing_user.plan \in PaidCodes /\ billing_user.plan # Code_FOUNDER)
        => BillingEnt.plan_key = K_free

(***************************************************************************)
(* Specifications                                                          *)
(***************************************************************************)
vars ==
    <<syncVars, gateVars, fetchVars, liveVars, handlerVars, sendVars, tradesVars, exportVars,
      limiterVars,
      loginVars,
      fidVars,
      pickVars,
      infoVars,
      splitVars,
      buildVars,
      delVars,
      cacheVars,
      normVars,
      submitVars,
      previewVars,
      lineupVars,
      billingVars>>

BillingParked ==
    /\ billing_user = [plan |-> "parked"]
    /\ billing_today = -1

LineupParked ==
    /\ lineup_leagues = {}
    /\ lineup_sent = {}
    /\ rapid_queue = << >>
    /\ rapid_idx = -1
    /\ rapid_events = {}
    /\ rapidCalls = [starts |-> 0, failures |-> 0]

PreviewParked ==
    /\ form = [mode |-> "parked"]
    /\ pending_json = [rendered |-> FALSE, offers |-> << >>]

SubmitParked ==
    /\ submitIdx = -1
    /\ synced_at = {}
    /\ leagues_synced = 0
    /\ sync_failed = {}

NormParked ==
    /\ pending = << >>
    /\ viewer = << >>
    /\ template_rows = [returned |-> FALSE, rows |-> <<"parked">>]

CacheParked ==
    /\ _LIVE_CACHE_STORE = << >>
    /\ _SERVER_CACHE = {}
    /\ cacheNow = -1

DelParked ==
    /\ leagues = {}
    /\ selected_ids = {}
    /\ to_delete = << >>
    /\ delIdx = 0
    /\ delPc = "parked"

BuildParked ==
    /\ build = << >>
    /\ rows = << >>
    /\ buildPc = "parked"

SplitParked ==
    /\ trades_flat = << >>
    /\ my_fid_by_league = << >>
    /\ splitIdx = 0
    /\ to_you = << >>
    /\ from_you = << >>
    /\ splitPc = "parked"

InfoParked ==
    /\ franchise_meta = << >>
    /\ infoPc = "parked"

PickParked ==
    /\ pickRow = [original_team |-> << >>, season |-> 0, round |-> 0]
    /\ pickToken = << >>
    /\ pickParsed = << >>

FidParked ==
    /\ fidRaw = [form |-> << >>, payload |-> << >>]
    /\ league_franchise_id = << >>
    /\ team_mfl_id = << >>
    /\ my_team = "parked"

LoginParked ==
    /\ acct = [mfl_user |-> "", session_key |-> "", mfl_cookie_api |-> "", hosts |-> {}]
    /\ acctBefore = acct
    /\ loginPc = "parked"
    /\ hostnames = {}
    /\ hostIdx = 1
    /\ host_cookie_map = {}
    /\ hostOk = {}

LimiterParked ==
    /\ rlCalls = << >>
    /\ rlClock = 0
    /\ rlThread = << >>
    /\ rlPassed = << >>

\* the sync machine at rest
SyncParked ==
    /\ teams = {}
    /\ rosters = EmptyTable
    /\ draft_picks = EmptyTable
    /\ players = {}
    /\ syncPc = "idle"
    /\ syncLeague = 1
    /\ franchises = << >>
    /\ syncIdx = 1
    /\ syncCalls = 0
    /\ syncBefore = [teams |-> {}, rosters |-> EmptyTable, draft_picks |-> EmptyTable]
    /\ syncRepeat = FALSE

\* the gate at rest
GateParked ==
    /\ user = [plan |-> K_free, unlimited |-> FALSE, founder_expires_at |-> None]
    /\ today = 0
    /\ dayCount = << >>
    /\ weeklyUsed = {}
    /\ bonus = 0
    /\ pc = [t \in Threads |-> "idle"]
    /\ req = [t \in Threads |-> IdleReq]
    /\ gateCalls = 0
    /\ gateLog = << >>
    /\ logOn = FALSE
    /\ dailyGrants = [d \in Days |-> 0]
    /\ freeGrants = [w \in WeekKeys |-> 0]
    /\ bonusGrants = 0
    /\ bonusHeld = 0

\* no league sync under way
FetchParked ==
    /\ fetch_specs = << >>
    /\ worker = << >>
    /\ fetched = << >>

\* no handler with a pool under way
HandlerParked ==
    /\ hKind = "none"
    /\ hPhase = "done"
    /\ hJobs = << >>
    /\ dbLog = {}

\* no export call under way
ExportParked ==
    /\ exClient = "none"
    /\ exHistory = << >>
    /\ exSlept = << >>
    /\ exOutcome = ReturnedBody

\* no pending-trades payload at hand
TradesParked ==
    /\ trades_xml = [error |-> TRUE, nodes |-> << >>]
    /\ trades_by = "parked"
    /\ trades_out = << >>

\* no batch of offers being sent
SendParked ==
    /\ items = << >>
    /\ sendIdx = 1
    /\ offers_log = << >>
    /\ sent = << >>
    /\ sendPc = "rendered"
    /\ lastResp = NoResp

\* no live refresh under way
LiveParked ==
    /\ league_infos = << >>
    /\ host_locks = << >>
    /\ liveW = << >>
    /\ semHeld = {}
    /\ semMade = 0

InitSync == SyncInit /\ GateParked /\ FetchParked /\ LiveParked /\ HandlerParked /\ SendParked /\ TradesParked /\ ExportParked
    /\ LimiterParked
    /\ LoginParked
    /\ FidParked
    /\ PickParked
    /\ InfoParked
    /\ SplitParked
    /\ BuildParked
    /\ DelParked
    /\ CacheParked
    /\ NormParked
    /\ SubmitParked
    /\ PreviewParked
    /\ LineupParked
    /\ BillingParked

InitGate == GateInit /\ SyncParked /\ FetchParked /\ LiveParked /\ HandlerParked /\ SendParked /\ TradesParked /\ ExportParked
    /\ LimiterParked
    /\ LoginParked
    /\ FidParked
    /\ PickParked
    /\ InfoParked
    /\ SplitParked
    /\ BuildParked
    /\ DelParked
    /\ CacheParked
    /\ NormParked
    /\ SubmitParked
    /\ PreviewParked
    /\ LineupParked
    /\ BillingParked

InitGateConc == GateConcInit /\ SyncParked /\ FetchParked /\ LiveParked /\ HandlerParked /\ SendParked /\ TradesParked /\ ExportParked
    /\ LimiterParked
    /\ LoginParked
    /\ FidParked
    /\ PickParked
    /\ InfoParked
    /\ SplitParked
    /\ BuildParked
    /\ DelParked
    /\ CacheParked
    /\ NormParked
    /\ SubmitParked
    /\ PreviewParked
    /\ LineupParked
    /\ BillingParked

InitFetch == FetchInit /\ SyncParked /\ GateParked /\ LiveParked /\ HandlerParked /\ SendParked /\ TradesParked /\ ExportParked
    /\ LimiterParked
    /\ LoginParked
    /\ FidParked
    /\ PickParked
    /\ InfoParked
    /\ SplitParked
    /\ BuildParked
    /\ DelParked
    /\ CacheParked
    /\ NormParked
    /\ SubmitParked
    /\ PreviewParked
    /\ LineupParked
    /\ BillingParked

InitLive == LiveInit /\ SyncParked /\ GateParked /\ FetchParked /\ HandlerParked /\ SendParked /\ TradesParked /\ ExportParked
    /\ LimiterParked
    /\ LoginParked
    /\ FidParked
    /\ PickParked
    /\ InfoParked
    /\ SplitParked
    /\ BuildParked
    /\ DelParked
    /\ CacheParked
    /\ NormParked
    /\ SubmitParked
    /\ PreviewParked
    /\ LineupParked
    /\ BillingParked

InitHandler == HandlerInit /\ SyncParked /\ GateParked /\ FetchParked /\ LiveParked /\ SendParked /\ TradesParked /\ ExportParked
    /\ LimiterParked
    /\ LoginParked
    /\ FidParked
    /\ PickParked
    /\ InfoParked
    /\ SplitParked
    /\ BuildParked
    /\ DelParked
    /\ CacheParked
    /\ NormParked
    /\ SubmitParked
    /\ PreviewParked
    /\ LineupParked
    /\ BillingParked

InitSend ==
    SendInit /\ SyncParked /\ GateParked /\ FetchParked /\ LiveParked /\ HandlerParked
    /\ TradesParked /\ ExportParked
    /\ LimiterParked
    /\ LoginParked
    /\ FidParked
    /\ PickParked
    /\ InfoParked
    /\ SplitParked
    /\ BuildParked
    /\ DelParked
    /\ CacheParked
    /\ NormParked
    /\ SubmitParked
    /\ PreviewParked
    /\ LineupParked
    /\ BillingParked

InitTrades ==
    TradesInit /\ SyncParked /\ GateParked /\ FetchParked /\ LiveParked /\ HandlerParked
    /\ SendParked /\ ExportParked
    /\ LimiterParked
    /\ LoginParked
    /\ FidParked
    /\ PickParked
    /\ InfoParked
    /\ SplitParked
    /\ BuildParked
    /\ DelParked
    /\ CacheParked
    /\ NormParked
    /\ SubmitParked
    /\ PreviewParked
    /\ LineupParked
    /\ BillingParked

InitExport ==
    ExportInit /\ SyncParked /\ GateParked /\ FetchParked /\ LiveParked /\ HandlerParked
    /\ SendParked /\ TradesParked
    /\ LimiterParked
    /\ LoginParked
    /\ FidParked
    /\ PickParked
    /\ InfoParked
    /\ SplitParked
    /\ BuildParked
    /\ DelParked
    /\ CacheParked
    /\ NormParked
    /\ SubmitParked
    /\ PreviewParked
    /\ LineupParked
    /\ BillingParked

InitLimiter ==
    LimiterInit /\ SyncParked /\ GateParked /\ FetchParked /\ HandlerParked /\ ExportParked
    /\ TradesParked /\ SendParked /\ LiveParked
    /\ LoginParked
    /\ FidParked
    /\ PickParked
    /\ InfoParked
    /\ SplitParked
    /\ BuildParked
    /\ DelParked
    /\ CacheParked
    /\ NormParked
    /\ SubmitParked
    /\ PreviewParked
    /\ LineupParked
    /\ BillingParked

InitLogin ==
    LoginInit /\ LimiterParked /\ SyncParked /\ GateParked /\ FetchParked /\ HandlerParked
    /\ ExportParked /\ TradesParked /\ SendParked /\ LiveParked
    /\ FidParked
    /\ PickParked
    /\ InfoParked
    /\ SplitParked
    /\ BuildParked
    /\ DelParked
    /\ CacheParked
    /\ NormParked
    /\ SubmitParked
    /\ PreviewParked
    /\ LineupParked
    /\ BillingParked

InitFid ==
    FidInit /\ LoginParked /\ LimiterParked /\ SyncParked /\ GateParked /\ FetchParked
    /\ HandlerParked /\ ExportParked /\ TradesParked /\ SendParked /\ LiveParked
    /\ PickParked
    /\ InfoParked
    /\ SplitParked
    /\ BuildParked
    /\ DelParked
    /\ CacheParked
    /\ NormParked
    /\ SubmitParked
    /\ PreviewParked
    /\ LineupParked
    /\ BillingParked

InitPick ==
    PickInit /\ FidParked /\ LoginParked /\ LimiterParked /\ SyncParked /\ GateParked
    /\ FetchParked /\ HandlerParked /\ ExportParked /\ TradesParked /\ SendParked /\ LiveParked
    /\ InfoParked
    /\ SplitParked
    /\ BuildParked
    /\ DelParked
    /\ CacheParked
    /\ NormParked
    /\ SubmitParked
    /\ PreviewParked
    /\ LineupParked
    /\ BillingParked

InitInfo ==
    InfoInit /\ PickParked /\ FidParked /\ LoginParked /\ LimiterParked
    /\ GateParked /\ FetchParked /\ HandlerParked /\ ExportParked /\ TradesParked /\ SendParked /\ LiveParked
    /\ SplitParked
    /\ BuildParked
    /\ DelParked
    /\ CacheParked
    /\ NormParked
    /\ SubmitParked
    /\ PreviewParked
    /\ LineupParked
    /\ BillingParked

InitSplit ==
    SplitInit /\ InfoParked /\ PickParked /\ FidParked /\ LoginParked /\ LimiterParked
    /\ SyncParked /\ GateParked /\ FetchParked /\ HandlerParked /\ ExportParked /\ TradesParked /\ SendParked /\ LiveParked
    /\ BuildParked
    /\ DelParked
    /\ CacheParked
    /\ NormParked
    /\ SubmitParked
    /\ PreviewParked
    /\ LineupParked
    /\ BillingParked

InitBuild ==
    BuildInit /\ SplitParked /\ InfoParked /\ PickParked /\ FidParked /\ LoginParked
    /\ LimiterParked /\ SyncParked /\ GateParked /\ FetchParked /\ HandlerParked /\ ExportParked /\ TradesParked /\ SendParked /\ LiveParked
    /\ DelParked
    /\ CacheParked
    /\ NormParked
    /\ SubmitParked
    /\ PreviewParked
    /\ LineupParked
    /\ BillingParked

InitDel ==
    DelInit /\ BuildParked /\ SplitParked /\ InfoParked /\ PickParked /\ FidParked
    /\ LoginParked /\ LimiterParked /\ GateParked /\ FetchParked /\ HandlerParked /\ ExportParked /\ TradesParked /\ SendParked /\ LiveParked
    /\ CacheParked
    /\ NormParked
    /\ SubmitParked
    /\ PreviewParked
    /\ LineupParked
    /\ BillingParked

InitTeams ==
    TeamsInit /\ DelParked /\ BuildParked /\ SplitParked /\ InfoParked /\ PickParked
    /\ FidParked /\ LoginParked /\ LimiterParked /\ GateParked /\ FetchParked
    /\ HandlerParked /\ ExportParked /\ TradesParked /\ SendParked /\ LiveParked
    /\ CacheParked
    /\ NormParked
    /\ SubmitParked
    /\ PreviewParked
    /\ LineupParked
    /\ BillingParked

InitCache ==
    CacheInit /\ DelParked /\ BuildParked /\ SplitParked /\ InfoParked /\ PickParked
    /\ FidParked /\ LoginParked /\ LimiterParked /\ SyncParked /\ GateParked /\ FetchParked /\ HandlerParked /\ ExportParked /\ TradesParked /\ SendParked /\ LiveParked
    /\ NormParked
    /\ SubmitParked
    /\ PreviewParked
    /\ LineupParked
    /\ BillingParked

InitNorm ==
    NormInit /\ CacheParked /\ DelParked /\ BuildParked /\ SplitParked /\ InfoParked
    /\ PickParked /\ FidParked /\ LoginParked /\ LimiterParked /\ SyncParked /\ GateParked /\ FetchParked /\ HandlerParked /\ ExportParked /\ TradesParked /\ SendParked /\ LiveParked
    /\ SubmitParked
    /\ PreviewParked
    /\ LineupParked
    /\ BillingParked

InitSubmit ==
    SubmitInit /\ NormParked /\ CacheParked /\ DelParked /\ BuildParked /\ SplitParked
    /\ InfoParked /\ PickParked /\ FidParked /\ LoginParked /\ LimiterParked
    /\ SyncParked /\ GateParked /\ HandlerParked /\ ExportParked /\ TradesParked
    /\ SendParked /\ LiveParked
    /\ PreviewParked
    /\ LineupParked
    /\ BillingParked

InitPreview ==
    PreviewInit /\ SubmitParked /\ NormParked /\ CacheParked /\ DelParked /\ BuildParked
    /\ SplitParked /\ InfoParked /\ PickParked /\ FidParked /\ LoginParked /\ LimiterParked /\ SyncParked /\ GateParked /\ FetchParked /\ HandlerParked /\ ExportParked /\ TradesParked /\ SendParked /\ LiveParked
    /\ LineupParked
    /\ BillingParked

InitLineup ==
    LineupInit /\ PreviewParked /\ SubmitParked /\ NormParked /\ CacheParked /\ DelParked
    /\ BuildParked /\ SplitParked /\ InfoParked /\ PickParked /\ FidParked /\ LoginParked /\ LimiterParked /\ SyncParked /\ GateParked /\ FetchParked /\ HandlerParked /\ ExportParked /\ TradesParked /\ SendParked /\ LiveParked
    /\ BillingParked

InitBilling ==
    BillingInit /\ LineupParked /\ PreviewParked /\ SubmitParked /\ NormParked /\ CacheParked
    /\ DelParked /\ BuildParked /\ SplitParked /\ InfoParked /\ PickParked /\ FidParked /\ LoginParked /\ LimiterParked /\ SyncParked /\ GateParked /\ FetchParked /\ HandlerParked /\ ExportParked /\ TradesParked /\ SendParked /\ LiveParked

SpecSync == InitSync /\ [][SyncNext]_vars

SpecGate == InitGate /\ [][GateNext]_vars

SpecGateConc == InitGateConc /\ [][GateConcNext]_vars

SpecFetch == InitFetch /\ [][FetchNext]_vars

SpecLive == InitLive /\ [][LiveNext]_vars

SpecHandler == InitHandler /\ [][HandlerNext]_vars

SpecSend == InitSend /\ [][SendNext]_vars

SpecTrades == InitTrades /\ [][TradesNext]_vars

SpecExport == InitExport /\ [][ExportNext]_vars

\* the thread of an export call keeps running: requests.get has a timeout
\* and every sleep is finite
SpecExportFair == SpecExport /\ WF_vars(ExportNext)

SpecLimiter == InitLimiter /\ [][LimiterNext]_vars

SpecLogin == InitLogin /\ [][LoginNext]_vars

SpecFid == InitFid /\ [][FidNext]_vars

SpecPick == InitPick /\ [][PickNext]_vars

SpecInfo == InitInfo /\ [][InfoNext]_vars

SpecSplit == InitSplit /\ [][SplitNext]_vars

SpecBuild == InitBuild /\ [][BuildNext]_vars

SpecDel == InitDel /\ [][DelNext]_vars

SpecTeams == InitTeams /\ [][TeamsNext]_vars

SpecCache == InitCache /\ [][CacheNext]_vars

SpecNorm == InitNorm /\ [][NormNext]_vars

SpecSubmit == InitSubmit /\ [][SubmitNext]_vars

SpecPreview == InitPreview /\ [][PreviewNext]_vars

SpecFootprint == InitSync /\ [][FootprintNext]_vars

SpecLineup == InitLineup /\ [][LineupNext]_vars

\* the user keeps submitting while a submission can change the session
SpecLineupFair == InitLineup /\ [][LineupNext]_vars /\ WF_vars(RapidStep)

SpecBilling == InitBilling /\ [][BillingNext]_vars

=============================================================================
